---- MODULE Spec2Model ----
(***************************************************************************)
(* Symbol table of the Soar kernel (Core/SoarKernel/src/symtab.cpp).       *)
(*                                                                         *)
(* The agent is one record, `agent'.  Every routine of symtab.cpp is an    *)
(* operator that takes the agent (and the routine's arguments) and yields  *)
(* [ag |-> the agent afterwards, ret |-> the value returned]; an action    *)
(* applies one routine to the current agent and records the call in `op'.  *)
(*                                                                         *)
(* Representation of machine values:                                       *)
(*   - a pointer to a symbol is the symbol's address, a positive integer;  *)
(*     NIL is 0;                                                           *)
(*   - a uint32_t that is hashed is a vector of 32 bits (bit 0 lowest);    *)
(*   - a uint64_t x is written as the integer congruent to x modulo 2^64   *)
(*     that lies nearest to zero: 0, 1, 2, ... are themselves and -1 is    *)
(*     2^64-1 (UINT64_MAX), -2 is 2^64-2, ...; Inc64 and Geq64 are the     *)
(*     exact unsigned increment and comparison on that window;             *)
(*   - an int64_t value v is the pair <<hi, lo>> with v = hi * 2^32 + lo;  *)
(*   - a double is [nan |-> FALSE, whole |-> w, frac |-> f] for the value  *)
(*     w + f/2, or NaN.                                                    *)
(***************************************************************************)
EXTENDS Integers, Sequences, FiniteSets, TLC

VARIABLES agent, op, held, snap, last_id, ebc, seen

vars == <<agent, op, held, snap, last_id, ebc, seen>>

NIL == 0

(***************************************************************************)
(* Bounds of the model.                                                    *)
(***************************************************************************)
\* symbols created in one run
MaxAlloc == 2
\* references callers hold on one symbol
MaxRef == 2
\* records a memory pool carves when its free list is empty
ItemsPerBlock == 2

(***************************************************************************)
(* Symbol kinds (the tags of symbol_union).                                *)
(***************************************************************************)
VARIABLE_SYMBOL_TYPE == "VARIABLE_SYMBOL_TYPE"
IDENTIFIER_SYMBOL_TYPE == "IDENTIFIER_SYMBOL_TYPE"
SYM_CONSTANT_SYMBOL_TYPE == "SYM_CONSTANT_SYMBOL_TYPE"
INT_CONSTANT_SYMBOL_TYPE == "INT_CONSTANT_SYMBOL_TYPE"
FLOAT_CONSTANT_SYMBOL_TYPE == "FLOAT_CONSTANT_SYMBOL_TYPE"

SymbolTypes ==
  {VARIABLE_SYMBOL_TYPE, IDENTIFIER_SYMBOL_TYPE, SYM_CONSTANT_SYMBOL_TYPE,
   INT_CONSTANT_SYMBOL_TYPE, FLOAT_CONSTANT_SYMBOL_TYPE}

(***************************************************************************)
(* The keys the model interns and the arguments of its calls.              *)
(***************************************************************************)
VariableNames == {"<s>"}

SymConstantNames == {"state", "nil"}

\* 7 and 2^32 + 7: equal in their low 32 bits
IntValues == {<<0, 7>>, <<1, 7>>}

\* a double that is not a number (one encoding stands for all of them)
NaN == [nan |-> TRUE, whole |-> 0, frac |-> 0]

\* 1.5 and NaN
FloatValues == {[nan |-> FALSE, whole |-> 1, frac |-> 1], NaN}

\* the identifiers asked for: 's' or 'Q', with the number omitted (NIL) or given
\* as 2, UINT64_MAX - 1 or UINT64_MAX
IdInputs == {<<115, NIL>>, <<115, 2>>, <<115, -2>>, <<115, -1>>, <<81, NIL>>}

NumberInputs == {i[2] : i \in IdInputs}

\* the identifiers looked up: S1, Q1
IdKeys == {<<83, 1>>, <<81, 1>>}

\* the letters an identifier can carry for these inputs: 'S' and 'Q'
IdLetters == {83, 81}

\* the numbers an identifier can carry: an input, or a counter that MaxAlloc
\* creations advanced from 1 or from an input
IdNumbers == {n + k : n \in NumberInputs, k \in 0 .. (MaxAlloc + 1)}

\* the log2size of a table that holds no more than MaxAlloc symbols
TableSizes == 1 .. 2

\* 64-bit numbers are written as integers in three ranges: n < 0 stands for
\* 2^64 + n, n at or above Above32 for 2^32 + (n - Above32), and every other n
\* for itself
Above32 == 2 ^ 29

\* numbers of identifiers that agree with 1, 2, ... in their low 32 bits:
\* 2^32 + 1, 2^32 + 2, ...
WideNumbers == {Above32 + k : k \in 1 .. (MaxAlloc + 2)}

LevelInputs == {1}

(***************************************************************************)
(* 32-bit words as bit vectors.                                            *)
(***************************************************************************)
WordBits == 32

BitIndex == 0 .. (WordBits - 1)

Zero32 == [i \in BitIndex |-> 0]

\* what static_cast<uint32_t>(NaN) gives in this build: 0 or 0x80000000
NanWords == {Zero32, [i \in BitIndex |-> IF i = WordBits - 1 THEN 1 ELSE 0]}

\* the uint32_t that n converts to (two's complement, the low 32 bits)
ToUint32(n) ==
  LET low == IF n >= Above32 THEN n - Above32 ELSE n
  IN [i \in BitIndex |->
        IF i < WordBits - 2 THEN (low % (2 ^ (i + 1))) \div (2 ^ i)
        ELSE IF low < 0 THEN 1 ELSE 0]

\* the number a word below 2^31 stands for
RECURSIVE WordValueFrom(_, _)
WordValueFrom(w, i) ==
  IF i = WordBits - 1 THEN 0 ELSE w[i] + 2 * WordValueFrom(w, i + 1)

WordValue(w) == WordValueFrom(w, 0)

Xor32(a, b) == [i \in BitIndex |-> (a[i] + b[i]) % 2]

And32(a, b) == [i \in BitIndex |-> a[i] * b[i]]

Or32(a, b) == [i \in BitIndex |-> IF a[i] + b[i] > 0 THEN 1 ELSE 0]

Shr32(a, k) == [i \in BitIndex |-> IF i + k < WordBits THEN a[i + k] ELSE 0]

Shl32(a, k) == [i \in BitIndex |-> IF i >= k THEN a[i - k] ELSE 0]

\* masks_for_n_low_order_bits[n]
masks_for_n_low_order_bits(n) == [i \in BitIndex |-> IF i < n THEN 1 ELSE 0]

(***************************************************************************)
(* Hash functions.                                                         *)
(***************************************************************************)
RECURSIVE compress_loop(_, _, _)
compress_loop(h, result, num_bits) ==
  IF h = Zero32 THEN result
  ELSE compress_loop(Shr32(h, num_bits),
                     Xor32(result, And32(h, masks_for_n_low_order_bits(num_bits))),
                     num_bits)

\* compress that keeps the low num_bits bits and drops the others
compress_low_bits(h, num_bits) == And32(h, masks_for_n_low_order_bits(num_bits))

compress(h, num_bits) ==
  LET h1 == IF num_bits < 16
            THEN Xor32(And32(h, masks_for_n_low_order_bits(16)), Shr32(h, 16))
            ELSE h
      h2 == IF num_bits < 8
            THEN Xor32(And32(h1, masks_for_n_low_order_bits(8)), Shr32(h1, 8))
            ELSE h1
  IN compress_loop(h2, Zero32, num_bits)

\* compress up to its loop: the two folds, and result = 0
compress_entry(h, num_bits) ==
  LET h1 == IF num_bits < 16
            THEN Xor32(And32(h, masks_for_n_low_order_bits(16)), Shr32(h, 16))
            ELSE h
      h2 == IF num_bits < 8
            THEN Xor32(And32(h1, masks_for_n_low_order_bits(8)), Shr32(h1, 8))
            ELSE h1
  IN [h |-> h2, result |-> Zero32]

\* the body of the loop with a mask that is one bit too wide
compress_body_wide_mask(h, result, num_bits) ==
  [h |-> Shr32(h, num_bits),
   result |-> Xor32(result, And32(h, masks_for_n_low_order_bits(num_bits + 1)))]

\* one pass through the body of the loop of compress
compress_body(h, result, num_bits) ==
  [h |-> Shr32(h, num_bits),
   result |-> Xor32(result, And32(h, masks_for_n_low_order_bits(num_bits)))]

\* the printable characters and their codes (" and the backslash and the
\* backquote, which no name of the model has, are left out)
Ascii ==
  <<[first |-> 32, text |-> " !"],
    [first |-> 35,
     text |-> "#$%&'()*+,-./0123456789:;<=>?@ABCDEFGHIJKLMNOPQRSTUVWXYZ["],
    [first |-> 93, text |-> "]^_"],
    [first |-> 97, text |-> "abcdefghijklmnopqrstuvwxyz{|}~"]>>

\* the code of each character, a character being a string of length one
char_codes ==
  LET at(r, i) == SubSeq(Ascii[r].text, i, i)
      chars == UNION {{at(r, i) : i \in 1 .. Len(Ascii[r].text)} :
                      r \in 1 .. Len(Ascii)}
  IN [c \in chars |->
        LET r == CHOOSE r \in 1 .. Len(Ascii) :
                   \E i \in 1 .. Len(Ascii[r].text) : at(r, i) = c
            i == CHOOSE i \in 1 .. Len(Ascii[r].text) : at(r, i) = c
        IN Ascii[r].first + i - 1]

CharCode(c) == char_codes[c]

\* the characters of a name, as the bytes of the C string
NameChars(name) == [i \in 1 .. Len(name) |-> CharCode(SubSeq(name, i, i))]

\* h = ((h << 8) | (h >> 24)) ^ (*s)   (a zero word rotates to itself)
hash_string_step(h, c) ==
  IF h = Zero32 THEN ToUint32(c)
  ELSE Xor32(Or32(Shl32(h, 8), Shr32(h, 24)), ToUint32(c))

RECURSIVE hash_string_between(_, _, _, _)
\* the loop of hash_string over the characters lo .. hi, in order, from the
\* word h (taken as two runs of the loop, so that a name that fills the
\* buffer of generate_new_sym_constant is hashed as any other)
hash_string_between(s, lo, hi, h) ==
  IF lo > hi THEN h
  ELSE IF lo = hi THEN hash_string_step(h, s[lo])
  ELSE LET left == hash_string_between(s, lo, (lo + hi) \div 2, h)
       IN IF left \in {left}
          THEN hash_string_between(s, (lo + hi) \div 2 + 1, hi, left)
          ELSE left

hash_string(name) == hash_string_between(NameChars(name), 1, Len(name), Zero32)

\* static_cast<uint32_t>(value) of a double drops the fraction; of NaN it is
\* undefined, and nan_word is what the agent's build makes of it
float_to_uint32(nan_word, value) ==
  IF value.nan THEN nan_word ELSE ToUint32(value.whole)

\* value == sym->fc.value on doubles: NaN equals nothing, itself included
float_equal(a, b) == ~a.nan /\ ~b.nan /\ a = b

(***************************************************************************)
(* The names of learned rules (ebc.cpp, generate_name_for_new_rule): the   *)
(* pieces of a name, and the instantiations and clock values of the model. *)
(* A pointer to a record is NULL (the empty sequence) or <<the record>>.   *)
(***************************************************************************)
NULL == <<>>

TOP_GOAL_LEVEL == 1

\* decision cycles, rules named in one decision cycle
MaxCycle == 1

MaxSeq == 2
MaxNames == 3

\* std::to_string, and %lu, of a counter.  A negative n stands for 2^64 + n,
\* and 2^64 is 18446744073709551616 (the counters the model has near the top
\* are within 1616 of it)
to_string(n) ==
  IF n >= 0 THEN ToString(n)
  ELSE "1844674407370955" \o SubSeq(ToString(10000 + 1616 + n), 2, 5)

ImpasseTypes ==
  {"CONSTRAINT_FAILURE_IMPASSE_TYPE", "CONFLICT_IMPASSE_TYPE", "TIE_IMPASSE_TYPE",
   "ONC_IMPASSE_TYPE", "SNC_IMPASSE_TYPE", "NONE_IMPASSE_TYPE"}

\* as parent_segment, but the depth is written for every rule that matched
parent_segment_always_depth(m_inst) ==
  IF m_inst.prod # NULL
  THEN "x" \o to_string(m_inst.prod_naming_depth + 1)
       \o "*" \o m_inst.prod[1].original_rule_name
  ELSE ""

\* Step 2: the learning depth and the name of the rule that matched
parent_segment(m_inst) ==
  IF m_inst.prod # NULL
  THEN (IF m_inst.prod_naming_depth # 0
        THEN "x" \o to_string(m_inst.prod_naming_depth + 1)
        ELSE "")
       \o "*" \o m_inst.prod[1].original_rule_name
  ELSE ""

\* as impasse_suffix, but with the two no-change impasses taken for each other
impasse_suffix_no_changes_swapped(impasse_type) ==
  CASE impasse_type = "CONSTRAINT_FAILURE_IMPASSE_TYPE" -> "*Failure"
    [] impasse_type = "CONFLICT_IMPASSE_TYPE" -> "*Conflict"
    [] impasse_type = "TIE_IMPASSE_TYPE" -> "*Tie"
    [] impasse_type = "ONC_IMPASSE_TYPE" -> "*StateNoChange"
    [] impasse_type = "SNC_IMPASSE_TYPE" -> "*OpNoChange"
    [] OTHER -> ""

\* Step 3: the impasse type of the goal above the match goal
impasse_suffix(impasse_type) ==
  CASE impasse_type = "CONSTRAINT_FAILURE_IMPASSE_TYPE" -> "*Failure"
    [] impasse_type = "CONFLICT_IMPASSE_TYPE" -> "*Conflict"
    [] impasse_type = "TIE_IMPASSE_TYPE" -> "*Tie"
    [] impasse_type = "ONC_IMPASSE_TYPE" -> "*OpNoChange"
    [] impasse_type = "SNC_IMPASSE_TYPE" -> "*StateNoChange"
    [] OTHER -> ""

\* as time_segment, but the count of initialisations is written always
time_segment_init_always(init_count, d_cycle_count, rule_number) ==
  "*t" \o to_string(init_count + 1) \o "-"
  \o to_string(d_cycle_count) \o "-" \o to_string(rule_number)

\* Step 4: the time
time_segment(init_count, d_cycle_count, rule_number) ==
  "*t"
  \o (IF init_count # 0 THEN to_string(init_count + 1) \o "-" ELSE "")
  \o to_string(d_cycle_count) \o "-" \o to_string(rule_number)

Instantiation(name, level, allow, impasse_type, prod, depth) ==
  [match_goal |-> [name |-> name, allow_bottom_up_chunks |-> allow,
                   higher_goal_impasse_type |-> impasse_type],
   match_goal_level |-> level, prod_name |-> "mv", prod |-> prod,
   prod_naming_depth |-> depth]

\* matches in a substate: of no production, of the rule mv under each impasse,
\* and of a rule learned from mv
NamerInstantiations ==
  {Instantiation("S2", TOP_GOAL_LEVEL + 1, TRUE, "TIE_IMPASSE_TYPE", NULL, 0),
   Instantiation("S2", TOP_GOAL_LEVEL + 1, TRUE, "TIE_IMPASSE_TYPE",
                 <<[original_rule_name |-> "mv"]>>, 1)}
  \cup
  {Instantiation("S2", TOP_GOAL_LEVEL + 1, TRUE, t,
                 <<[original_rule_name |-> "mv"]>>, 0) : t \in ImpasseTypes}

\* files of rules whose names the names of learned rules run into
RuleFiles ==
  {<<"chunk1">>, <<"chunk*mv*Tie*t1-1">>,
   <<"chunk*mv*Tie*t1-1", "chunk*mv*Tie*t1-12">>}

SquatNames == UNION {{names[i] : i \in 1 .. Len(names)} : names \in RuleFiles}

NamePrefixes == {"chunk", "justify"}

\* the names a rule can get in the model: the numbered ones, the composed ones
\* and the ones made of a name in SquatNames and a number
RuleNames ==
  SquatNames
  \cup {prefix \o to_string(n) : prefix \in NamePrefixes, n \in 1 .. 2 * MaxNames + 2}
  \cup {prefix \o parent_segment(m_inst)
                \o impasse_suffix(m_inst.match_goal.higher_goal_impasse_type)
                \o time_segment(times[1], times[2], times[3]) :
          prefix \in NamePrefixes, m_inst \in NamerInstantiations,
          times \in (0 .. 1) \X (0 .. MaxCycle) \X (1 .. MaxSeq)}
  \cup {name \o to_string(k) : name \in SquatNames, k \in 2 .. 3}

(***************************************************************************)
(* The predefined symbols (symtab.cpp, create_predefined_symbols): the     *)
(* agent field each one is stored in, the routine that makes it and its    *)
(* name, in the order of the assignments.                                  *)
(***************************************************************************)
PredefinedSymbols ==
  <<
    [field |-> "problem_space_symbol", make |-> "make_sym_constant", name |-> "problem-space"],
    [field |-> "state_symbol", make |-> "make_sym_constant", name |-> "state"],
    [field |-> "operator_symbol", make |-> "make_sym_constant", name |-> "operator"],
    [field |-> "superstate_symbol", make |-> "make_sym_constant", name |-> "superstate"],
    [field |-> "io_symbol", make |-> "make_sym_constant", name |-> "io"],
    [field |-> "object_symbol", make |-> "make_sym_constant", name |-> "object"],
    [field |-> "attribute_symbol", make |-> "make_sym_constant", name |-> "attribute"],
    [field |-> "impasse_symbol", make |-> "make_sym_constant", name |-> "impasse"],
    [field |-> "choices_symbol", make |-> "make_sym_constant", name |-> "choices"],
    [field |-> "none_symbol", make |-> "make_sym_constant", name |-> "none"],
    [field |-> "constraint_failure_symbol", make |-> "make_sym_constant", name |-> "constraint-failure"],
    [field |-> "no_change_symbol", make |-> "make_sym_constant", name |-> "no-change"],
    [field |-> "multiple_symbol", make |-> "make_sym_constant", name |-> "multiple"],
    [field |-> "item_count_symbol", make |-> "make_sym_constant", name |-> "item-count"],
    [field |-> "non_numeric_count_symbol", make |-> "make_sym_constant", name |-> "non-numeric-count"],
    [field |-> "conflict_symbol", make |-> "make_sym_constant", name |-> "conflict"],
    [field |-> "tie_symbol", make |-> "make_sym_constant", name |-> "tie"],
    [field |-> "item_symbol", make |-> "make_sym_constant", name |-> "item"],
    [field |-> "non_numeric_symbol", make |-> "make_sym_constant", name |-> "non-numeric"],
    [field |-> "quiescence_symbol", make |-> "make_sym_constant", name |-> "quiescence"],
    [field |-> "t_symbol", make |-> "make_sym_constant", name |-> "t"],
    [field |-> "nil_symbol", make |-> "make_sym_constant", name |-> "nil"],
    [field |-> "type_symbol", make |-> "make_sym_constant", name |-> "type"],
    [field |-> "goal_symbol", make |-> "make_sym_constant", name |-> "goal"],
    [field |-> "name_symbol", make |-> "make_sym_constant", name |-> "name"],
    [field |-> "ts_context_variable", make |-> "make_variable", name |-> "<ts>"],
    [field |-> "to_context_variable", make |-> "make_variable", name |-> "<to>"],
    [field |-> "sss_context_variable", make |-> "make_variable", name |-> "<sss>"],
    [field |-> "sso_context_variable", make |-> "make_variable", name |-> "<sso>"],
    [field |-> "ss_context_variable", make |-> "make_variable", name |-> "<ss>"],
    [field |-> "so_context_variable", make |-> "make_variable", name |-> "<so>"],
    [field |-> "s_context_variable", make |-> "make_variable", name |-> "<s>"],
    [field |-> "o_context_variable", make |-> "make_variable", name |-> "<o>"],
    [field |-> "wait_symbol", make |-> "make_variable", name |-> "wait"],
    [field |-> "input_link_symbol", make |-> "make_sym_constant", name |-> "input-link"],
    [field |-> "output_link_symbol", make |-> "make_sym_constant", name |-> "output-link"],
    [field |-> "rl_sym_reward_link", make |-> "make_sym_constant", name |-> "reward-link"],
    [field |-> "rl_sym_reward", make |-> "make_sym_constant", name |-> "reward"],
    [field |-> "rl_sym_value", make |-> "make_sym_constant", name |-> "value"],
    [field |-> "epmem_sym", make |-> "make_sym_constant", name |-> "epmem"],
    [field |-> "epmem_sym_cmd", make |-> "make_sym_constant", name |-> "command"],
    [field |-> "epmem_sym_result", make |-> "make_sym_constant", name |-> "result"],
    [field |-> "epmem_sym_retrieved", make |-> "make_sym_constant", name |-> "retrieved"],
    [field |-> "epmem_sym_status", make |-> "make_sym_constant", name |-> "status"],
    [field |-> "epmem_sym_match_score", make |-> "make_sym_constant", name |-> "match-score"],
    [field |-> "epmem_sym_cue_size", make |-> "make_sym_constant", name |-> "cue-size"],
    [field |-> "epmem_sym_normalized_match_score", make |-> "make_sym_constant", name |-> "normalized-match-score"],
    [field |-> "epmem_sym_match_cardinality", make |-> "make_sym_constant", name |-> "match-cardinality"],
    [field |-> "epmem_sym_memory_id", make |-> "make_sym_constant", name |-> "memory-id"],
    [field |-> "epmem_sym_present_id", make |-> "make_sym_constant", name |-> "present-id"],
    [field |-> "epmem_sym_no_memory", make |-> "make_sym_constant", name |-> "no-memory"],
    [field |-> "epmem_sym_graph_match", make |-> "make_sym_constant", name |-> "graph-match"],
    [field |-> "epmem_sym_graph_match_mapping", make |-> "make_sym_constant", name |-> "mapping"],
    [field |-> "epmem_sym_graph_match_mapping_node", make |-> "make_sym_constant", name |-> "node"],
    [field |-> "epmem_sym_graph_match_mapping_cue", make |-> "make_sym_constant", name |-> "cue"],
    [field |-> "epmem_sym_success", make |-> "make_sym_constant", name |-> "success"],
    [field |-> "epmem_sym_failure", make |-> "make_sym_constant", name |-> "failure"],
    [field |-> "epmem_sym_bad_cmd", make |-> "make_sym_constant", name |-> "bad-cmd"],
    [field |-> "epmem_sym_retrieve", make |-> "make_sym_constant", name |-> "retrieve"],
    [field |-> "epmem_sym_next", make |-> "make_sym_constant", name |-> "next"],
    [field |-> "epmem_sym_prev", make |-> "make_sym_constant", name |-> "previous"],
    [field |-> "epmem_sym_query", make |-> "make_sym_constant", name |-> "query"],
    [field |-> "epmem_sym_negquery", make |-> "make_sym_constant", name |-> "neg-query"],
    [field |-> "epmem_sym_before", make |-> "make_sym_constant", name |-> "before"],
    [field |-> "epmem_sym_after", make |-> "make_sym_constant", name |-> "after"],
    [field |-> "epmem_sym_prohibit", make |-> "make_sym_constant", name |-> "prohibit"],
    [field |-> "epmem_sym_yes", make |-> "make_sym_constant", name |-> "yes"],
    [field |-> "epmem_sym_no", make |-> "make_sym_constant", name |-> "no"],
    [field |-> "smem_sym", make |-> "make_sym_constant", name |-> "smem"],
    [field |-> "smem_sym_cmd", make |-> "make_sym_constant", name |-> "command"],
    [field |-> "smem_sym_result", make |-> "make_sym_constant", name |-> "result"],
    [field |-> "smem_sym_retrieved", make |-> "make_sym_constant", name |-> "retrieved"],
    [field |-> "smem_sym_status", make |-> "make_sym_constant", name |-> "status"],
    [field |-> "smem_sym_success", make |-> "make_sym_constant", name |-> "success"],
    [field |-> "smem_sym_failure", make |-> "make_sym_constant", name |-> "failure"],
    [field |-> "smem_sym_bad_cmd", make |-> "make_sym_constant", name |-> "bad-cmd"],
    [field |-> "smem_sym_retrieve", make |-> "make_sym_constant", name |-> "retrieve"],
    [field |-> "smem_sym_query", make |-> "make_sym_constant", name |-> "query"],
    [field |-> "smem_sym_negquery", make |-> "make_sym_constant", name |-> "neg-query"],
    [field |-> "smem_sym_prohibit", make |-> "make_sym_constant", name |-> "prohibit"],
    [field |-> "smem_sym_store", make |-> "make_sym_constant", name |-> "store"],
    [field |-> "smem_sym_math_query", make |-> "make_sym_constant", name |-> "math-query"],
    [field |-> "smem_sym_math_query_less", make |-> "make_sym_constant", name |-> "less"],
    [field |-> "smem_sym_math_query_greater", make |-> "make_sym_constant", name |-> "greater"],
    [field |-> "smem_sym_math_query_less_or_equal", make |-> "make_sym_constant", name |-> "less-or-equal"],
    [field |-> "smem_sym_math_query_greater_or_equal", make |-> "make_sym_constant", name |-> "greater-or-equal"],
    [field |-> "smem_sym_math_query_max", make |-> "make_sym_constant", name |-> "max"],
    [field |-> "smem_sym_math_query_min", make |-> "make_sym_constant", name |-> "min"]
  >>

\* the agent fields in the order release_predefined_symbols releases them
ReleasedFields ==
  <<
    "problem_space_symbol", "state_symbol", "operator_symbol",
    "superstate_symbol", "io_symbol", "object_symbol", "attribute_symbol",
    "impasse_symbol", "choices_symbol", "none_symbol",
    "constraint_failure_symbol", "no_change_symbol", "multiple_symbol",
    "conflict_symbol", "tie_symbol", "item_symbol", "non_numeric_symbol",
    "quiescence_symbol", "t_symbol", "nil_symbol", "type_symbol",
    "goal_symbol", "name_symbol", "ts_context_variable",
    "to_context_variable", "sss_context_variable", "sso_context_variable",
    "ss_context_variable", "so_context_variable", "s_context_variable",
    "o_context_variable", "item_count_symbol", "non_numeric_count_symbol",
    "wait_symbol", "input_link_symbol", "output_link_symbol",
    "rl_sym_reward_link", "rl_sym_reward", "rl_sym_value", "epmem_sym",
    "epmem_sym_cmd", "epmem_sym_result", "epmem_sym_retrieved",
    "epmem_sym_status", "epmem_sym_match_score", "epmem_sym_cue_size",
    "epmem_sym_normalized_match_score", "epmem_sym_match_cardinality",
    "epmem_sym_memory_id", "epmem_sym_present_id", "epmem_sym_no_memory",
    "epmem_sym_graph_match", "epmem_sym_graph_match_mapping",
    "epmem_sym_graph_match_mapping_node", "epmem_sym_graph_match_mapping_cue",
    "epmem_sym_success", "epmem_sym_failure", "epmem_sym_bad_cmd",
    "epmem_sym_retrieve", "epmem_sym_next", "epmem_sym_prev",
    "epmem_sym_query", "epmem_sym_negquery", "epmem_sym_before",
    "epmem_sym_after", "epmem_sym_prohibit", "epmem_sym_yes", "epmem_sym_no",
    "smem_sym", "smem_sym_cmd", "smem_sym_result", "smem_sym_retrieved",
    "smem_sym_status", "smem_sym_success", "smem_sym_failure",
    "smem_sym_bad_cmd", "smem_sym_retrieve", "smem_sym_query",
    "smem_sym_negquery", "smem_sym_prohibit", "smem_sym_store",
    "smem_sym_math_query", "smem_sym_math_query_less",
    "smem_sym_math_query_greater", "smem_sym_math_query_less_or_equal",
    "smem_sym_math_query_greater_or_equal", "smem_sym_math_query_max",
    "smem_sym_math_query_min"
  >>

PredefinedFields == {PredefinedSymbols[i].field : i \in DOMAIN PredefinedSymbols}

PredefinedNames == {PredefinedSymbols[i].name : i \in DOMAIN PredefinedSymbols}

\* the sizes (log2) a table takes while the predefined symbols are in it
PredefinedTableSizes == 1 .. 6

\* hash_string of the predefined names, computed once
predefined_words == [name \in PredefinedNames |-> hash_string(name)]

predefined_hashes ==
  [name \in PredefinedNames, num_bits \in PredefinedTableSizes |->
     WordValue(compress(predefined_words[name], num_bits))]

\* the size of the buffer generate_new_sym_constant writes its names in
GENERATE_NEW_SYM_CONSTANT_BUFFER_SIZE == 2000

RECURSIVE Repeated(_, _)
\* n times the string s
Repeated(s, n) ==
  IF n = 0 THEN ""
  ELSE (IF n % 2 = 1 THEN s ELSE "") \o Repeated(s \o s, n \div 2)

\* a prefix as long as the buffer holds
LongPrefix == Repeated("a", GENERATE_NEW_SYM_CONSTANT_BUFFER_SIZE - 1)

GenPrefixes == {"chunk", LongPrefix}

\* 1 and UINT64_MAX
GenStarts == {1, -1}

\* the names callers intern
GenNames == {"chunk1", "chunk2", "chunk" \o to_string(-1), LongPrefix}

\* hash_string of the names generate_new_sym_constant meets, computed once
GeneratedNames == GenNames \cup {"chunk" \o to_string(n) : n \in 0 .. 3}

generated_words == [name \in GeneratedNames |-> hash_string(name)]

generated_hashes ==
  [name \in DOMAIN generated_words, num_bits \in TableSizes |->
     WordValue(compress(generated_words[name], num_bits))]

\* hash_string of the names of the model, computed once
string_words ==
  [name \in VariableNames \cup SymConstantNames \cup RuleNames |-> hash_string(name)]

\* The five hash functions, each tabulated over the keys and table sizes of the
\* model (a table is computed once, from compress and hash_string).
string_hashes ==
  [name \in DOMAIN string_words, num_bits \in TableSizes |->
     WordValue(compress(string_words[name], num_bits))]

identifier_hashes ==
  [name_letter \in IdLetters, name_number \in IdNumbers, num_bits \in TableSizes |->
     WordValue(compress(Xor32(ToUint32(name_number),
                              Shl32(ToUint32(name_letter), 24)), num_bits))]

\* static_cast<uint32_t>(value) keeps the low 32 bits: the lo half of the pair
int_constant_hashes ==
  [value \in IntValues, num_bits \in TableSizes |->
     WordValue(compress(ToUint32(value[2]), num_bits))]

float_constant_hashes ==
  [value \in FloatValues, nan_word \in NanWords, num_bits \in TableSizes |->
     WordValue(compress(float_to_uint32(nan_word, value), num_bits))]

\* compress(hash_string(name), num_bits), from the table where it has the name
hash_name(name, num_bits) ==
  IF <<name, num_bits>> \in DOMAIN string_hashes
  THEN string_hashes[name, num_bits]
  ELSE IF <<name, num_bits>> \in DOMAIN predefined_hashes
  THEN predefined_hashes[name, num_bits]
  ELSE IF name \in GeneratedNames /\ num_bits \in TableSizes
  THEN generated_hashes[name, num_bits]
  ELSE WordValue(compress(hash_string(name), num_bits))

hash_variable_raw_info(name, num_bits) == hash_name(name, num_bits)

\* the same for every letter an identifier can have, with the numbers its
\* counter gives
letter_hashes ==
  [name_letter \in 65 .. 90, name_number \in 1 .. MaxAlloc + 2,
   num_bits \in TableSizes |->
     WordValue(compress(Xor32(ToUint32(name_number),
                              Shl32(ToUint32(name_letter), 24)), num_bits))]

\* the same for the identifiers S with the numbers from 2^32 + 1 on
wide_identifier_hashes ==
  [name_letter \in {83}, name_number \in WideNumbers, num_bits \in TableSizes |->
     WordValue(compress(Xor32(ToUint32(name_number),
                              Shl32(ToUint32(name_letter), 24)), num_bits))]

hash_identifier_raw_info(name_letter, name_number, num_bits) ==
  IF <<name_letter, name_number, num_bits>> \in DOMAIN identifier_hashes
  THEN identifier_hashes[name_letter, name_number, num_bits]
  ELSE IF <<name_letter, name_number, num_bits>> \in DOMAIN wide_identifier_hashes
  THEN wide_identifier_hashes[name_letter, name_number, num_bits]
  ELSE letter_hashes[name_letter, name_number, num_bits]

hash_sym_constant_raw_info(name, num_bits) == hash_name(name, num_bits)

hash_int_constant_raw_info(value, num_bits) == int_constant_hashes[value, num_bits]

hash_float_constant_raw_info(ag, value, num_bits) ==
  float_constant_hashes[value, ag.nan_word, num_bits]

hash_variable(ag, item, num_bits) == hash_name(ag.symbols[item].name, num_bits)

hash_identifier(ag, item, num_bits) ==
  hash_identifier_raw_info(ag.symbols[item].name_letter,
                           ag.symbols[item].name_number, num_bits)

hash_sym_constant(ag, item, num_bits) ==
  hash_name(ag.symbols[item].name, num_bits)

hash_int_constant(ag, item, num_bits) ==
  int_constant_hashes[ag.symbols[item].value, num_bits]

hash_float_constant(ag, item, num_bits) ==
  float_constant_hashes[ag.symbols[item].value, ag.nan_word, num_bits]

(***************************************************************************)
(* Hash tables and memory pools (mem.cpp), as symtab.cpp uses them.        *)
(* A table is [log2size, count, buckets]; buckets[b] is the chain of       *)
(* bucket b, the addresses linked through next_in_hash_table, head first.  *)
(***************************************************************************)
make_hash_table(minimum_log2size) ==
  LET log2size == IF minimum_log2size < 1 THEN 1 ELSE minimum_log2size
  IN [log2size |-> log2size, count |-> 0,
      buckets |-> [b \in 0 .. (2 ^ log2size - 1) |-> <<>>]]

\* ht->h, the callback init_symbol_tables gives each table
table_hash(ag, type, item, num_bits) ==
  CASE type = VARIABLE_SYMBOL_TYPE -> hash_variable(ag, item, num_bits)
    [] type = IDENTIFIER_SYMBOL_TYPE -> hash_identifier(ag, item, num_bits)
    [] type = SYM_CONSTANT_SYMBOL_TYPE -> hash_sym_constant(ag, item, num_bits)
    [] type = INT_CONSTANT_SYMBOL_TYPE -> hash_int_constant(ag, item, num_bits)
    [] type = FLOAT_CONSTANT_SYMBOL_TYPE -> hash_float_constant(ag, item, num_bits)

RECURSIVE all_items_from(_, _)
all_items_from(ht, b) ==
  IF b = 2 ^ ht.log2size THEN <<>> ELSE ht.buckets[b] \o all_items_from(ht, b + 1)

\* the items of a table in the order do_for_all_items_in_hash_table visits them
all_items(ht) == all_items_from(ht, 0)

\* items i, i + 1, ... are put, in that order, each at the head of its bucket:
\* a bucket ends up holding its items last one first
rehash(ag, type, items, i, ht) ==
  LET n == Len(items) - i + 1
      last_first == [k \in 1 .. n |-> items[Len(items) + 1 - k]]
  IN [ht EXCEPT !.buckets =
        [b \in DOMAIN @ |->
           SelectSeq(last_first,
                     LAMBDA x : table_hash(ag, type, x, ht.log2size) = b) \o @[b]]]

resize_hash_table(ag, type, new_log2size) ==
  LET old == ag.tables[type]
      empty == [make_hash_table(new_log2size) EXCEPT !.count = old.count]
  IN [ag EXCEPT !.tables[type] = rehash(ag, type, all_items(old), 1, empty)]

add_to_hash_table(ag, type, item) ==
  LET ht == ag.tables[type]
      h == table_hash(ag, type, item, ht.log2size)
      ag1 == [ag EXCEPT !.tables[type].count = @ + 1,
                        !.tables[type].buckets[h] = <<item>> \o @]
  IN IF ht.count + 1 > 2 * (2 ^ ht.log2size)
     THEN resize_hash_table(ag1, type, ht.log2size + 1)
     ELSE ag1

remove_from_hash_table(ag, type, item) ==
  LET ht == ag.tables[type]
      h == table_hash(ag, type, item, ht.log2size)
  IN [ag EXCEPT !.tables[type].count = @ - 1,
                !.tables[type].buckets[h] = SelectSeq(@, LAMBDA x : x # item)]

\* a pool is its free list, head first; an empty pool carves a block of
\* ItemsPerBlock records from fresh memory
allocate_with_pool(ag, type) ==
  LET grown == IF ag.pools[type] = <<>>
               THEN [ag EXCEPT !.pools[type] =
                                 [i \in 1 .. ItemsPerBlock |-> ag.memory_top + i],
                               !.memory_top = @ + ItemsPerBlock]
               ELSE ag
  IN [ag |-> [grown EXCEPT !.pools[type] = Tail(@)],
      ret |-> Head(grown.pools[type])]

free_with_pool(ag, type, item) ==
  [ag EXCEPT !.pools[type] = <<item>> \o @,
             !.symbols = [a \in (DOMAIN @) \ {item} |-> @[a]]]

(***************************************************************************)
(* Arithmetic on uint64_t and on the uint32_t hash id.                     *)
(***************************************************************************)
\* x + 1 on uint64_t: UINT64_MAX (-1) goes to 0
Inc64(x) == IF x = -1 THEN 0 ELSE x + 1

\* a >= b on uint64_t
Geq64(a, b) == IF (a < 0) = (b < 0) THEN a >= b ELSE a < 0

\* the largest int32: the hash id is written as the int32 with the same bits
Int32Max == 2147483647

HashIdStep == 137

get_next_symbol_hash_id(ag) ==
  LET x == ag.current_symbol_hash_id
      y == IF x > Int32Max - HashIdStep
           THEN ((x - Int32Max) + HashIdStep - Int32Max) - 2
           ELSE x + HashIdStep
  IN [ag |-> [ag EXCEPT !.current_symbol_hash_id = y], ret |-> y]

(***************************************************************************)
(* Lookup: the find_xxx routines walk the chain of the key's bucket.       *)
(***************************************************************************)
\* for ( ; sym!=NIL; sym = sym->common.next_in_hash_table) if (match) return sym;
\* return NIL
\* return NIL: `matching' is the chain's symbols that match, in chain order
first_in_chain(matching) == IF matching = <<>> THEN NIL ELSE Head(matching)

find_variable(ag, name) ==
  LET ht == ag.tables[VARIABLE_SYMBOL_TYPE]
      hash_value == hash_variable_raw_info(name, ht.log2size)
      match(sym) == ag.symbols[sym].name = name
  IN [ag |-> ag, ret |-> first_in_chain(SelectSeq(ht.buckets[hash_value], match))]

find_identifier(ag, name_letter, name_number) ==
  LET ht == ag.tables[IDENTIFIER_SYMBOL_TYPE]
      hash_value ==
        hash_identifier_raw_info(name_letter, name_number, ht.log2size)
      match(sym) == /\ name_letter = ag.symbols[sym].name_letter
                    /\ name_number = ag.symbols[sym].name_number
  IN [ag |-> ag, ret |-> first_in_chain(SelectSeq(ht.buckets[hash_value], match))]

\* find_sym_constant as a lookup that takes a reference on what it finds
find_sym_constant_add_ref(ag, name) ==
  LET ht == ag.tables[SYM_CONSTANT_SYMBOL_TYPE]
      hash_value == hash_sym_constant_raw_info(name, ht.log2size)
      match(sym) == ag.symbols[sym].name = name
      found == first_in_chain(SelectSeq(ht.buckets[hash_value], match))
  IN [ag |-> IF found = NIL THEN ag
             ELSE [ag EXCEPT !.symbols[found].reference_count = @ + 1],
      ret |-> found]

find_sym_constant(ag, name) ==
  LET ht == ag.tables[SYM_CONSTANT_SYMBOL_TYPE]
      hash_value == hash_sym_constant_raw_info(name, ht.log2size)
      match(sym) == ag.symbols[sym].name = name
  IN [ag |-> ag, ret |-> first_in_chain(SelectSeq(ht.buckets[hash_value], match))]

\* find_int_constant that compares the 32 bits that are hashed
find_int_constant_low_word(ag, value) ==
  LET ht == ag.tables[INT_CONSTANT_SYMBOL_TYPE]
      hash_value == hash_int_constant_raw_info(value, ht.log2size)
      match(sym) == value[2] = ag.symbols[sym].value[2]
  IN [ag |-> ag, ret |-> first_in_chain(SelectSeq(ht.buckets[hash_value], match))]

find_int_constant(ag, value) ==
  LET ht == ag.tables[INT_CONSTANT_SYMBOL_TYPE]
      hash_value == hash_int_constant_raw_info(value, ht.log2size)
      match(sym) == value = ag.symbols[sym].value
  IN [ag |-> ag, ret |-> first_in_chain(SelectSeq(ht.buckets[hash_value], match))]

find_float_constant(ag, value) ==
  LET ht == ag.tables[FLOAT_CONSTANT_SYMBOL_TYPE]
      hash_value == hash_float_constant_raw_info(ag, value, ht.log2size)
      match(sym) == float_equal(value, ag.symbols[sym].value)
  IN [ag |-> ag, ret |-> first_in_chain(SelectSeq(ht.buckets[hash_value], match))]

(***************************************************************************)
(* Reference counts and deallocation.                                      *)
(***************************************************************************)
symbol_add_ref(ag, sym) ==
  [ag EXCEPT !.symbols[sym].reference_count = @ + 1]

\* deallocate_symbol that returns a non-symbol to the variable pool before it
\* reports the error
deallocate_symbol_frees_non_symbol(ag, sym) ==
  LET type == ag.symbols[sym].symbol_type
  IN IF type \in SymbolTypes
     THEN free_with_pool(remove_from_hash_table(ag, type, sym), type, sym)
     ELSE [free_with_pool(ag, VARIABLE_SYMBOL_TYPE, sym) EXCEPT !.fatal_error =
             "Internal error: called deallocate_symbol on non-symbol.\n"]

\* deallocate_symbol that gives up a reference to the variablized symbol
deallocate_symbol_drops_variablized(ag, sym) ==
  LET type == ag.symbols[sym].symbol_type
      target == ag.symbols[sym].variablized_symbol
      ag1 == IF target # NIL /\ target # sym /\ target \in DOMAIN ag.symbols
             THEN [ag EXCEPT !.symbols[target].reference_count = @ - 1]
             ELSE ag
  IN IF type \in SymbolTypes
     THEN free_with_pool(remove_from_hash_table(ag1, type, sym), type, sym)
     ELSE [ag EXCEPT !.fatal_error =
                       "Internal error: called deallocate_symbol on non-symbol.\n"]

deallocate_symbol(ag, sym) ==
  LET type == ag.symbols[sym].symbol_type
  IN IF type \in SymbolTypes
     THEN free_with_pool(remove_from_hash_table(ag, type, sym), type, sym)
     ELSE [ag EXCEPT !.fatal_error =
                       "Internal error: called deallocate_symbol on non-symbol.\n"]

symbol_remove_ref(ag, sym) ==
  LET ag1 == [ag EXCEPT !.symbols[sym].reference_count = @ - 1]
  IN IF ag1.symbols[sym].reference_count = 0
     THEN deallocate_symbol(ag1, sym)
     ELSE ag1

(***************************************************************************)
(* Creation: the make_xxx routines.                                        *)
(***************************************************************************)
\* the fields every make_xxx sets on the record it allocated
common_fields(type, hash_id) ==
  [symbol_type |-> type, reference_count |-> 0, hash_id |-> hash_id, tc_num |-> 0,
   variablized_symbol |-> NIL, unvariablized_symbol |-> NIL,
   original_var_symbol |-> NIL]

\* the symbol record is written at the allocated address
store_symbol(ag, sym, fields) ==
  [ag EXCEPT !.symbols = [a \in (DOMAIN @) \cup {sym} |->
                            IF a = sym THEN fields ELSE @[a]]]

\* make_variable entering the new symbol in its table with the count of its
\* construction
make_variable_unreferenced(ag, name) ==
  LET sym == find_variable(ag, name).ret
      a == allocate_with_pool(ag, VARIABLE_SYMBOL_TYPE)
      h == get_next_symbol_hash_id(a.ag)
      fields == common_fields(VARIABLE_SYMBOL_TYPE, h.ret) @@
                [name |-> name, gensym_number |-> 0, rete_binding_locations |-> NIL]
      ag1 == store_symbol(h.ag, a.ret, fields)
  IN IF sym # NIL
     THEN [ag |-> symbol_add_ref(ag, sym), ret |-> sym]
     ELSE [ag |-> add_to_hash_table(ag1, VARIABLE_SYMBOL_TYPE, a.ret), ret |-> a.ret]

make_variable(ag, name) ==
  LET sym == find_variable(ag, name).ret
      a == allocate_with_pool(ag, VARIABLE_SYMBOL_TYPE)
      h == get_next_symbol_hash_id(a.ag)
      fields == common_fields(VARIABLE_SYMBOL_TYPE, h.ret) @@
                [name |-> name, gensym_number |-> 0, rete_binding_locations |-> NIL]
      ag1 == symbol_add_ref(store_symbol(h.ag, a.ret, fields), a.ret)
  IN IF sym # NIL
     THEN [ag |-> symbol_add_ref(ag, sym), ret |-> sym]
     ELSE [ag |-> add_to_hash_table(ag1, VARIABLE_SYMBOL_TYPE, a.ret), ret |-> a.ret]

\* make_sym_constant without the lookup: it always allocates
make_sym_constant_no_find(ag, name) ==
  LET a == allocate_with_pool(ag, SYM_CONSTANT_SYMBOL_TYPE)
      h == get_next_symbol_hash_id(a.ag)
      fields == common_fields(SYM_CONSTANT_SYMBOL_TYPE, h.ret) @@
                [name |-> name, production |-> NIL]
      ag1 == symbol_add_ref(store_symbol(h.ag, a.ret, fields), a.ret)
  IN [ag |-> add_to_hash_table(ag1, SYM_CONSTANT_SYMBOL_TYPE, a.ret), ret |-> a.ret]

\* make_sym_constant that starts a new symbol with two references
make_sym_constant_two_refs(ag, name) ==
  LET sym == find_sym_constant(ag, name).ret
      a == allocate_with_pool(ag, SYM_CONSTANT_SYMBOL_TYPE)
      h == get_next_symbol_hash_id(a.ag)
      fields == common_fields(SYM_CONSTANT_SYMBOL_TYPE, h.ret) @@
                [name |-> name, production |-> NIL]
      ag1 == symbol_add_ref(symbol_add_ref(store_symbol(h.ag, a.ret, fields), a.ret),
                            a.ret)
  IN IF sym # NIL
     THEN [ag |-> symbol_add_ref(ag, sym), ret |-> sym]
     ELSE [ag |-> add_to_hash_table(ag1, SYM_CONSTANT_SYMBOL_TYPE, a.ret),
           ret |-> a.ret]

make_sym_constant(ag, name) ==
  LET sym == find_sym_constant(ag, name).ret
      a == allocate_with_pool(ag, SYM_CONSTANT_SYMBOL_TYPE)
      h == get_next_symbol_hash_id(a.ag)
      fields == common_fields(SYM_CONSTANT_SYMBOL_TYPE, h.ret) @@
                [name |-> name, production |-> NIL]
      ag1 == symbol_add_ref(store_symbol(h.ag, a.ret, fields), a.ret)
  IN IF sym # NIL
     THEN [ag |-> symbol_add_ref(ag, sym), ret |-> sym]
     ELSE [ag |-> add_to_hash_table(ag1, SYM_CONSTANT_SYMBOL_TYPE, a.ret),
           ret |-> a.ret]

make_int_constant(ag, value) ==
  LET sym == find_int_constant(ag, value).ret
      a == allocate_with_pool(ag, INT_CONSTANT_SYMBOL_TYPE)
      h == get_next_symbol_hash_id(a.ag)
      fields == common_fields(INT_CONSTANT_SYMBOL_TYPE, h.ret) @@ [value |-> value]
      ag1 == symbol_add_ref(store_symbol(h.ag, a.ret, fields), a.ret)
  IN IF sym # NIL
     THEN [ag |-> symbol_add_ref(ag, sym), ret |-> sym]
     ELSE [ag |-> add_to_hash_table(ag1, INT_CONSTANT_SYMBOL_TYPE, a.ret),
           ret |-> a.ret]

make_float_constant(ag, value) ==
  LET sym == find_float_constant(ag, value).ret
      a == allocate_with_pool(ag, FLOAT_CONSTANT_SYMBOL_TYPE)
      h == get_next_symbol_hash_id(a.ag)
      fields == common_fields(FLOAT_CONSTANT_SYMBOL_TYPE, h.ret) @@ [value |-> value]
      ag1 == symbol_add_ref(store_symbol(h.ag, a.ret, fields), a.ret)
  IN IF sym # NIL
     THEN [ag |-> symbol_add_ref(ag, sym), ret |-> sym]
     ELSE [ag |-> add_to_hash_table(ag1, FLOAT_CONSTANT_SYMBOL_TYPE, a.ret),
           ret |-> a.ret]

(***************************************************************************)
(* Identifiers.  Characters are their ASCII codes.                         *)
(***************************************************************************)
islower(c) == c \in 97 .. 122

isalpha(c) == c \in 65 .. 90 \/ islower(c)

toupper(c) == IF islower(c) THEN c - 32 ELSE c

\* name_letter - 'A'
letter_index(name_letter) == name_letter - 65

\* make_new_identifier that reads the counter without advancing it
make_new_identifier_no_increment(ag, name_letter, level, name_number) ==
  LET letter == IF isalpha(name_letter)
                THEN (IF islower(name_letter) THEN toupper(name_letter)
                      ELSE name_letter)
                ELSE 73
      a == allocate_with_pool(ag, IDENTIFIER_SYMBOL_TYPE)
      h == get_next_symbol_hash_id(a.ag)
      current_number == ag.id_counter[letter_index(letter)]
      number == IF name_number = NIL THEN current_number ELSE name_number
      counter == IF name_number = NIL THEN current_number
                 ELSE IF Geq64(name_number, current_number) THEN Inc64(name_number)
                 ELSE current_number
      fields == common_fields(IDENTIFIER_SYMBOL_TYPE, h.ret) @@
                [name_letter |-> letter, name_number |-> number, level |-> level,
                 promotion_level |-> level, smem_lti |-> NIL]
      ag1 == [h.ag EXCEPT !.id_counter[letter_index(letter)] = counter]
      ag2 == symbol_add_ref(store_symbol(ag1, a.ret, fields), a.ret)
  IN [ag |-> add_to_hash_table(ag2, IDENTIFIER_SYMBOL_TYPE, a.ret), ret |-> a.ret]

make_new_identifier(ag, name_letter, level, name_number) ==
  LET letter == IF isalpha(name_letter)
                THEN (IF islower(name_letter) THEN toupper(name_letter)
                      ELSE name_letter)
                ELSE 73
      a == allocate_with_pool(ag, IDENTIFIER_SYMBOL_TYPE)
      h == get_next_symbol_hash_id(a.ag)
      current_number == ag.id_counter[letter_index(letter)]
      number == IF name_number = NIL THEN current_number ELSE name_number
      counter == IF name_number = NIL THEN Inc64(current_number)
                 ELSE IF Geq64(name_number, current_number) THEN Inc64(name_number)
                 ELSE current_number
      fields == common_fields(IDENTIFIER_SYMBOL_TYPE, h.ret) @@
                [name_letter |-> letter, name_number |-> number, level |-> level,
                 promotion_level |-> level, smem_lti |-> NIL]
      ag1 == [h.ag EXCEPT !.id_counter[letter_index(letter)] = counter]
      ag2 == symbol_add_ref(store_symbol(ag1, a.ret, fields), a.ret)
  IN [ag |-> add_to_hash_table(ag2, IDENTIFIER_SYMBOL_TYPE, a.ret), ret |-> a.ret]

\* semantic memory's count of the identifiers of the table that are long-term
smem_count_ltis(ag, items) ==
  Len(SelectSeq(items, LAMBDA sym : ag.symbols[sym].smem_lti # NIL))

\* what semantic memory does when it is told that the counters were reset
smem_reset_id_counters(ag) == ag

\* print_identifier_ref_info that writes long-term identifiers like the others
print_identifier_ref_info_no_at(ag, sym) ==
  IF ag.symbols[sym].symbol_type = IDENTIFIER_SYMBOL_TYPE
  THEN IF ag.symbols[sym].reference_count > 0
       THEN <<[before |-> "\t",
               letter |-> ag.symbols[sym].name_letter,
               number |-> ag.symbols[sym].name_number,
               between |-> " --> ",
               refcount |-> ag.symbols[sym].reference_count,
               after |-> "\n"]>>
       ELSE <<>>
  ELSE <<>>

\* the line print_identifier_ref_info writes for one item, <<>> when it writes
\* none; a line is the pieces of "\t@%c%llu --> %llu\n" or "\t%c%llu --> %llu\n"
\* in the order written: the text before %c, the letter, the number, the text
\* between the numbers, the refcount, the text after it
print_identifier_ref_info(ag, sym) ==
  IF ag.symbols[sym].symbol_type = IDENTIFIER_SYMBOL_TYPE
  THEN IF ag.symbols[sym].reference_count > 0
       THEN <<[before |-> IF ag.symbols[sym].smem_lti # NIL THEN "\t@" ELSE "\t",
               letter |-> ag.symbols[sym].name_letter,
               number |-> ag.symbols[sym].name_number,
               between |-> " --> ",
               refcount |-> ag.symbols[sym].reference_count,
               after |-> "\n"]>>
       ELSE <<>>
  ELSE <<>>

RECURSIVE leak_lines(_, _, _)
leak_lines(ag, items, i) ==
  IF i > Len(items) THEN <<>>
  ELSE print_identifier_ref_info(ag, items[i]) \o leak_lines(ag, items, i + 1)

\* reset_id_counters that refuses whenever the table is not empty
reset_id_counters_ignore_ltis(ag, smem_connected) ==
  LET ht == ag.tables[IDENTIFIER_SYMBOL_TYPE]
      reset == [ag EXCEPT !.id_counter = [i \in 0 .. 25 |-> 1]]
  IN IF ht.count # 0
     THEN [ag |-> ag, ret |-> FALSE, file |-> leak_lines(ag, all_items(ht), 1),
           notified |-> FALSE]
     ELSE [ag |-> IF smem_connected THEN smem_reset_id_counters(reset) ELSE reset,
           ret |-> TRUE, file |-> <<>>, notified |-> smem_connected]

\* reset_id_counters that sets the counters only when the table is empty
reset_id_counters_keep_with_ltis(ag, smem_connected) ==
  LET ht == ag.tables[IDENTIFIER_SYMBOL_TYPE]
      ltis == smem_count_ltis(ag, all_items(ht))
      reset == IF ht.count = 0 THEN [ag EXCEPT !.id_counter = [i \in 0 .. 25 |-> 1]]
               ELSE ag
  IN IF ht.count # 0 /\ ht.count # ltis
     THEN [ag |-> ag, ret |-> FALSE, file |-> leak_lines(ag, all_items(ht), 1),
           notified |-> FALSE]
     ELSE [ag |-> IF smem_connected THEN smem_reset_id_counters(reset) ELSE reset,
           ret |-> TRUE, file |-> <<>>, notified |-> smem_connected]

\* yields also `file', the lines written to leaked-ids.txt, and `notified',
\* whether smem_reset_id_counters was called; smem_connected is what
\* thisAgent->smem_db->get_status() answers
reset_id_counters(ag, smem_connected) ==
  LET ht == ag.tables[IDENTIFIER_SYMBOL_TYPE]
      ltis == smem_count_ltis(ag, all_items(ht))
      reset == [ag EXCEPT !.id_counter = [i \in 0 .. 25 |-> 1]]
  IN IF ht.count # 0 /\ ht.count # ltis
     THEN [ag |-> ag, ret |-> FALSE, file |-> leak_lines(ag, all_items(ht), 1),
           notified |-> FALSE]
     ELSE [ag |-> IF smem_connected THEN smem_reset_id_counters(reset) ELSE reset,
           ret |-> TRUE, file |-> <<>>, notified |-> smem_connected]

\* semantic memory makes a live identifier long-term (sym->id.smem_lti is set)
smem_set_lti(ag, sym) == [ag EXCEPT !.symbols[sym].smem_lti = 1]

init_symbol_tables(smem_connected, nan_word) ==
  reset_id_counters(
    [symbols |-> <<>>,
     tables |-> [t \in SymbolTypes |-> make_hash_table(0)],
     pools |-> [t \in SymbolTypes |-> <<>>],
     memory_top |-> 0,
     current_symbol_hash_id |-> 0,
     id_counter |-> [i \in 0 .. 25 |-> 0],
     nan_word |-> nan_word,
     fatal_error |-> ""], smem_connected).ag

(***************************************************************************)
(* The sweeps over the tables (reset_id_and_variable_tc_numbers,           *)
(* reset_variable_gensym_numbers); do_for_all_items_in_hash_table calls    *)
(* the routine on every item of the table.                                 *)
(***************************************************************************)
\* reset_tc_num that leaves the mark as it is
reset_tc_num_skips(ag, item) == ag

\* sym->common.tc_num = 0
reset_tc_num(ag, item) == [ag EXCEPT !.symbols[item].tc_num = 0]

\* reset_gensym_number that writes 1
reset_gensym_number_one(ag, item) == [ag EXCEPT !.symbols[item].gensym_number = 1]

\* sym->var.gensym_number = 0
reset_gensym_number(ag, item) == [ag EXCEPT !.symbols[item].gensym_number = 0]

RECURSIVE reset_tc_num_from(_, _, _)
reset_tc_num_from(ag, items, i) ==
  IF i > Len(items) THEN ag
  ELSE reset_tc_num_from(reset_tc_num(ag, items[i]), items, i + 1)

RECURSIVE reset_gensym_number_from(_, _, _)
reset_gensym_number_from(ag, items, i) ==
  IF i > Len(items) THEN ag
  ELSE reset_gensym_number_from(reset_gensym_number(ag, items[i]), items, i + 1)

\* the sweep that clears the gensym numbers of the variables as well
reset_id_and_variable_tc_numbers_and_gensym(ag) ==
  reset_gensym_number_from(
    reset_tc_num_from(
      reset_tc_num_from(ag, all_items(ag.tables[IDENTIFIER_SYMBOL_TYPE]), 1),
      all_items(ag.tables[VARIABLE_SYMBOL_TYPE]), 1),
    all_items(ag.tables[VARIABLE_SYMBOL_TYPE]), 1)

reset_id_and_variable_tc_numbers(ag) ==
  reset_tc_num_from(
    reset_tc_num_from(ag, all_items(ag.tables[IDENTIFIER_SYMBOL_TYPE]), 1),
    all_items(ag.tables[VARIABLE_SYMBOL_TYPE]), 1)

reset_variable_gensym_numbers(ag) ==
  reset_gensym_number_from(ag, all_items(ag.tables[VARIABLE_SYMBOL_TYPE]), 1)

(***************************************************************************)
(* The predefined symbols: create_predefined_symbols stores each symbol it *)
(* makes in its agent field (agent.predefined, absent until then);         *)
(* release_predefined_symbols gives the references back.                   *)
(***************************************************************************)
\* make_predefined taking a second reference to the symbol it made
make_predefined_counted_twice(ag, entry) ==
  LET made == IF entry.make = "make_variable"
              THEN make_variable(ag, entry.name)
              ELSE make_sym_constant(ag, entry.name)
  IN [ag |-> symbol_add_ref(made.ag, made.ret), ret |-> made.ret]

make_predefined(ag, entry) ==
  IF entry.make = "make_variable"
  THEN make_variable(ag, entry.name)
  ELSE make_sym_constant(ag, entry.name)

\* the agent written out: the same record, its tables no longer expressed in
\* terms of the agent before
written_out(ag) == CHOOSE a \in {ag} : a = ag

\* thisAgent-><field> = the symbol made
assign_predefined(made, field) ==
  [made.ag EXCEPT !.predefined = (field :> made.ret) @@ @]

create_one(ag, i) ==
  written_out(assign_predefined(make_predefined(ag, PredefinedSymbols[i]),
                                PredefinedSymbols[i].field))

RECURSIVE create_range(_, _, _)
\* assignments lo .. hi, in order (a fatal error ends the program)
create_range(ag, lo, hi) ==
  IF ag.fatal_error # "" THEN ag
  ELSE IF lo = hi THEN create_one(ag, lo)
  ELSE create_range(create_range(ag, lo, (lo + hi) \div 2),
                    (lo + hi) \div 2 + 1, hi)

create_predefined_symbols(ag) ==
  create_range([predefined |-> <<>>] @@ ag, 1, Len(PredefinedSymbols))

\* release_helper that leaves the agent pointer as it was
release_helper_keeps_pointer(ag, field) ==
  symbol_remove_ref(ag, ag.predefined[field])

\* symbol_remove_ref(thisAgent, *sym); *sym = 0;
release_helper(ag, field) ==
  [symbol_remove_ref(ag, ag.predefined[field]) EXCEPT !.predefined[field] = NIL]

RECURSIVE release_range(_, _, _)
\* release_helper calls lo .. hi, in order (a fatal error ends the program)
release_range(ag, lo, hi) ==
  IF ag.fatal_error # "" THEN ag
  ELSE IF lo = hi THEN written_out(release_helper(ag, ReleasedFields[lo]))
  ELSE release_range(release_range(ag, lo, (lo + hi) \div 2),
                     (lo + hi) \div 2 + 1, hi)

release_predefined_symbols(ag) == release_range(ag, 1, Len(ReleasedFields))

(***************************************************************************)
(* The explanation-based chunker (explanation_based_chunking/ebc.cpp).     *)
(* The controller is the record `ebc'; an instantiation is a record        *)
(*   [match_goal, match_goal_level, prod_name, prod, prod_naming_depth],   *)
(* match_goal a goal record                                                *)
(*   [name, allow_bottom_up_chunks, higher_goal_impasse_type]              *)
(* and prod a pointer to a production [original_rule_name].                *)
(***************************************************************************)
EbcSettings == {"SETTING_EBC_LEARNING_ON", "SETTING_EBC_EXCEPT", "SETTING_EBC_ONLY",
                "SETTING_EBC_BOTTOM_ONLY"}

\* member_of_list(item, list) on a list of goals
member_of_list(item, list) == \E i \in 1 .. Len(list) : list[i] = item

\* the fields reinit assigns
reinit_fields(e) ==
  [inst_id_counter |-> 0,
   prod_id_counter |-> 0,
   identity_counter |-> 0,
   inst_identity_counter |-> 0,
   backtrace_number |-> 0,
   chunk_naming_counter |-> 0,
   justification_naming_counter |-> 0,
   grounds_tc |-> 0,
   m_results_match_goal_level |-> 0,
   m_goal_level |-> 0,
   m_results_tc |-> 0,
   m_correctness_issue_possible |-> TRUE,
   m_inst |-> NULL,
   m_results |-> NIL,
   m_extra_results |-> NIL,
   m_lhs |-> NIL,
   m_rhs |-> NIL,
   m_prod |-> NIL,
   m_chunk_inst |-> NULL,
   m_prod_name |-> NIL,
   chunk_free_problem_spaces |-> <<>>,
   chunky_problem_spaces |-> <<>>,
   m_failure_type |-> "ebc_success",
   m_rule_type |-> "ebc_no_rule",
   m_learning_on_for_instantiation |-> e.ebc_settings["SETTING_EBC_LEARNING_ON"]]

\* reinit that does not call ebc_timers->reset()
reinit_keeps_timers(e) == reinit_fields(e) @@ e

\* reinit: clear_data and ebc_timers->reset() touch none of the fields modelled
\* except the timers, which are set back
reinit(e) ==
  reinit_fields(e) @@ [e EXCEPT !.ebc_timers = "reset"]

\* the constructor, for given settings; the per-cycle tallies start at 0;
\* myAgent is the agent's clock, [init_count, d_cycle_count]
Explanation_Based_Chunker(myAgent, ebc_settings, naming_style) ==
  reinit([thisAgent |-> myAgent,
          ebc_settings |-> ebc_settings,
          naming_style |-> naming_style,
          ebc_timers |-> "reset",
          chunk_name_prefix |-> "chunk",
          justification_name_prefix |-> "justify",
          chunks_this_d_cycle |-> 0,
          justifications_this_d_cycle |-> 0,
          m_prod_type |-> NIL])

\* the message a refusal prints
refusal_message(inst, why) ==
  "\nWill not attempt to learn a chunk for match of " \o inst.prod_name \o
  " because state " \o inst.match_goal.name \o why

\* set_learning_for_instantiation without the test of the top goal level
set_learning_for_instantiation_top_too(e, trace_chunk_warnings, inst) ==
  LET refuse(printed) ==
        [ebc |-> [e EXCEPT !.m_learning_on_for_instantiation = FALSE],
         ret |-> FALSE, printed |-> printed]
      warn(why) ==
        IF trace_chunk_warnings THEN <<refusal_message(inst, why)>> ELSE <<>>
  IN IF ~e.ebc_settings["SETTING_EBC_LEARNING_ON"]
     THEN refuse(<<>>)
     ELSE IF e.ebc_settings["SETTING_EBC_EXCEPT"]
               /\ member_of_list(inst.match_goal.name, e.chunk_free_problem_spaces)
     THEN refuse(warn(" was flagged to prevent learning"))
     ELSE IF e.ebc_settings["SETTING_EBC_ONLY"]
               /\ ~member_of_list(inst.match_goal.name, e.chunky_problem_spaces)
     THEN refuse(warn(" was not flagged for learning"))
     ELSE IF e.ebc_settings["SETTING_EBC_BOTTOM_ONLY"]
               /\ ~inst.match_goal.allow_bottom_up_chunks
     THEN refuse(warn(" is not the bottom state"))
     ELSE [ebc |-> [e EXCEPT !.m_learning_on_for_instantiation = TRUE],
           ret |-> TRUE, printed |-> <<>>]

\* set_learning_for_instantiation that refuses the states flagged for learning
set_learning_for_instantiation_only_inverted(e, trace_chunk_warnings, inst) ==
  LET refuse(printed) ==
        [ebc |-> [e EXCEPT !.m_learning_on_for_instantiation = FALSE],
         ret |-> FALSE, printed |-> printed]
      warn(why) ==
        IF trace_chunk_warnings THEN <<refusal_message(inst, why)>> ELSE <<>>
  IN IF ~e.ebc_settings["SETTING_EBC_LEARNING_ON"]
          \/ inst.match_goal_level = TOP_GOAL_LEVEL
     THEN refuse(<<>>)
     ELSE IF e.ebc_settings["SETTING_EBC_EXCEPT"]
               /\ member_of_list(inst.match_goal.name, e.chunk_free_problem_spaces)
     THEN refuse(warn(" was flagged to prevent learning"))
     ELSE IF e.ebc_settings["SETTING_EBC_ONLY"]
               /\ member_of_list(inst.match_goal.name, e.chunky_problem_spaces)
     THEN refuse(warn(" was not flagged for learning"))
     ELSE IF e.ebc_settings["SETTING_EBC_BOTTOM_ONLY"]
               /\ ~inst.match_goal.allow_bottom_up_chunks
     THEN refuse(warn(" is not the bottom state"))
     ELSE [ebc |-> [e EXCEPT !.m_learning_on_for_instantiation = TRUE],
           ret |-> TRUE, printed |-> <<>>]

\* set_learning_for_instantiation that tests its own last answer, not the setting
set_learning_for_instantiation_sticky(e, trace_chunk_warnings, inst) ==
  LET refuse(printed) ==
        [ebc |-> [e EXCEPT !.m_learning_on_for_instantiation = FALSE],
         ret |-> FALSE, printed |-> printed]
      warn(why) ==
        IF trace_chunk_warnings THEN <<refusal_message(inst, why)>> ELSE <<>>
  IN IF ~e.m_learning_on_for_instantiation
          \/ inst.match_goal_level = TOP_GOAL_LEVEL
     THEN refuse(<<>>)
     ELSE IF e.ebc_settings["SETTING_EBC_EXCEPT"]
               /\ member_of_list(inst.match_goal.name, e.chunk_free_problem_spaces)
     THEN refuse(warn(" was flagged to prevent learning"))
     ELSE IF e.ebc_settings["SETTING_EBC_ONLY"]
               /\ ~member_of_list(inst.match_goal.name, e.chunky_problem_spaces)
     THEN refuse(warn(" was not flagged for learning"))
     ELSE IF e.ebc_settings["SETTING_EBC_BOTTOM_ONLY"]
               /\ ~inst.match_goal.allow_bottom_up_chunks
     THEN refuse(warn(" is not the bottom state"))
     ELSE [ebc |-> [e EXCEPT !.m_learning_on_for_instantiation = TRUE],
           ret |-> TRUE, printed |-> <<>>]

\* set_learning_for_instantiation that tests the only mode before the except mode
set_learning_for_instantiation_only_first(e, trace_chunk_warnings, inst) ==
  LET refuse(printed) ==
        [ebc |-> [e EXCEPT !.m_learning_on_for_instantiation = FALSE],
         ret |-> FALSE, printed |-> printed]
      warn(why) ==
        IF trace_chunk_warnings THEN <<refusal_message(inst, why)>> ELSE <<>>
  IN IF ~e.ebc_settings["SETTING_EBC_LEARNING_ON"]
          \/ inst.match_goal_level = TOP_GOAL_LEVEL
     THEN refuse(<<>>)
     ELSE IF e.ebc_settings["SETTING_EBC_ONLY"]
               /\ ~member_of_list(inst.match_goal.name, e.chunky_problem_spaces)
     THEN refuse(warn(" was not flagged for learning"))
     ELSE IF e.ebc_settings["SETTING_EBC_EXCEPT"]
               /\ member_of_list(inst.match_goal.name, e.chunk_free_problem_spaces)
     THEN refuse(warn(" was flagged to prevent learning"))
     ELSE IF e.ebc_settings["SETTING_EBC_BOTTOM_ONLY"]
               /\ ~inst.match_goal.allow_bottom_up_chunks
     THEN refuse(warn(" is not the bottom state"))
     ELSE [ebc |-> [e EXCEPT !.m_learning_on_for_instantiation = TRUE],
           ret |-> TRUE, printed |-> <<>>]

\* yields the controller, the value returned and the messages printed;
\* trace_chunk_warnings is thisAgent->trace_settings[TRACE_CHUNKS_WARNINGS_SYSPARAM]
set_learning_for_instantiation(e, trace_chunk_warnings, inst) ==
  LET refuse(printed) ==
        [ebc |-> [e EXCEPT !.m_learning_on_for_instantiation = FALSE],
         ret |-> FALSE, printed |-> printed]
      warn(why) ==
        IF trace_chunk_warnings THEN <<refusal_message(inst, why)>> ELSE <<>>
  IN IF ~e.ebc_settings["SETTING_EBC_LEARNING_ON"]
          \/ inst.match_goal_level = TOP_GOAL_LEVEL
     THEN refuse(<<>>)
     ELSE IF e.ebc_settings["SETTING_EBC_EXCEPT"]
               /\ member_of_list(inst.match_goal.name, e.chunk_free_problem_spaces)
     THEN refuse(warn(" was flagged to prevent learning"))
     ELSE IF e.ebc_settings["SETTING_EBC_ONLY"]
               /\ ~member_of_list(inst.match_goal.name, e.chunky_problem_spaces)
     THEN refuse(warn(" was not flagged for learning"))
     ELSE IF e.ebc_settings["SETTING_EBC_BOTTOM_ONLY"]
               /\ ~inst.match_goal.allow_bottom_up_chunks
     THEN refuse(warn(" is not the bottom state"))
     ELSE [ebc |-> [e EXCEPT !.m_learning_on_for_instantiation = TRUE],
           ret |-> TRUE, printed |-> <<>>]

\* increment_counter(counter)
increment_counter(counter) == Inc64(counter)

\* the loop of generate_new_sym_constant: the first counter value at or after
\* `counter' whose name is not interned
\* SNPRINTF(name, GENERATE_NEW_SYM_CONSTANT_BUFFER_SIZE, "%s%lu", prefix,
\* counter) and name[GENERATE_NEW_SYM_CONSTANT_BUFFER_SIZE - 1] = 0: what of
\* the prefix and the number fits the buffer
buffer_name(prefix, counter) ==
  LET whole == prefix \o to_string(counter)
  IN IF Len(whole) < GENERATE_NEW_SYM_CONSTANT_BUFFER_SIZE THEN whole
     ELSE SubSeq(whole, 1, GENERATE_NEW_SYM_CONSTANT_BUFFER_SIZE - 1)

RECURSIVE first_new_name(_, _, _)
first_new_name(ag, prefix, counter) ==
  IF find_sym_constant(ag, buffer_name(prefix, counter)).ret # NIL
  THEN first_new_name(ag, prefix, Inc64(counter))
  ELSE counter

\* what generate_new_sym_constant yields: the symbol New, and the counter as the
\* call leaves it
new_with_counter(New, counter) ==
  [ag |-> New.ag, ret |-> New.ret, counter |-> counter]

\* the end of generate_new_sym_constant: the symbol is made with the number
\* `used', and the counter left one past it
make_numbered(ag, prefix, used) ==
  new_with_counter(make_sym_constant(ag, buffer_name(prefix, used)), Inc64(used))

\* as generate_new_sym_constant, but the first name is taken without a lookup
generate_new_sym_constant_first_try(ag, prefix, counter) ==
  make_numbered(ag, prefix, counter)

generate_new_sym_constant(ag, prefix, counter) ==
  make_numbered(ag, prefix, first_new_name(ag, prefix, counter))

\* make_str_constant_no_find: a new symbolic constant, made without a lookup
make_str_constant_no_find(ag, name) ==
  LET a == allocate_with_pool(ag, SYM_CONSTANT_SYMBOL_TYPE)
      h == get_next_symbol_hash_id(a.ag)
      fields == common_fields(SYM_CONSTANT_SYMBOL_TYPE, h.ret) @@
                [name |-> name, production |-> NIL]
      ag1 == symbol_add_ref(store_symbol(h.ag, a.ret, fields), a.ret)
  IN [ag |-> add_to_hash_table(ag1, SYM_CONSTANT_SYMBOL_TYPE, a.ret), ret |-> a.ret]

\* the prefix of chunks, whatever the kind of rule
rule_prefix_always_chunk(e) == e.chunk_name_prefix

\* Step 1: the prefix, the tally and the naming counter of the kind of rule
rule_prefix(e) ==
  IF e.m_rule_type = "ebc_chunk" THEN e.chunk_name_prefix
  ELSE e.justification_name_prefix

rule_number(e) ==
  IF e.m_rule_type = "ebc_chunk" THEN e.chunks_this_d_cycle
  ELSE e.justifications_this_d_cycle

rule_naming_counter(e) ==
  IF e.m_rule_type = "ebc_chunk" THEN e.chunk_naming_counter
  ELSE e.justification_naming_counter

\* what generate_name_for_new_rule yields: the agent, the controller, the symbol
\* returned and `composed', the name composed in steps 1 to 4 ("" when the name
\* is a numbered one).  Here for a numbered name: the generator has advanced
\* the kind's naming counter
numbered_rule_name(e, numbered) ==
  [ag |-> numbered.ag,
   ebc |-> IF e.m_rule_type = "ebc_chunk"
           THEN [e EXCEPT !.chunk_naming_counter = numbered.counter]
           ELSE [e EXCEPT !.justification_naming_counter = numbered.counter],
   ret |-> numbered.ret, composed |-> ""]

\* for a composed name: Step 2 has set the depth of the new instantiation
composed_rule_name(e, new_rule_name, installed) ==
  [ag |-> installed.ag,
   ebc |-> IF e.m_inst[1].prod # NULL
           THEN [e EXCEPT !.m_chunk_inst[1].prod_naming_depth =
                            e.m_inst[1].prod_naming_depth + 1]
           ELSE e,
   ret |-> installed.ret, composed |-> new_rule_name]

\* the name composed in steps 1 to 4
new_rule_name(e) ==
  rule_prefix(e)
  \o parent_segment(e.m_inst[1])
  \o impasse_suffix(e.m_inst[1].match_goal.higher_goal_impasse_type)
  \o time_segment(e.thisAgent.init_count, e.thisAgent.d_cycle_count, rule_number(e))

\* a symbol made by the generator, without the counter
without_counter(New) == [ag |-> New.ag, ret |-> New.ret]

\* as install_rule_name, but the composed name is interned as any name is
install_rule_name_interned(ag, name) == make_sym_constant(ag, name)

\* as install_rule_name, but without the probe
install_rule_name_no_probe(ag, name) ==
  make_str_constant_no_find(ag, name)

\* the end of generate_name_for_new_rule: the composed name is probed for, and
\* made as it is or with a number from 2 on (dummy_counter)
install_rule_name(ag, name) ==
  IF find_sym_constant(ag, name).ret # NIL
  THEN without_counter(generate_new_sym_constant(ag, name, 2))
  ELSE make_str_constant_no_find(ag, name)

compose_rule_name(ag, e, name) ==
  composed_rule_name(e, name, install_rule_name(ag, name))

generate_name_for_new_rule(ag, e) ==
  IF ~e.ebc_settings["SETTING_EBC_LEARNING_ON"]
       \/ e.naming_style = "numberedFormat"
  THEN numbered_rule_name(
         e, generate_new_sym_constant(ag, rule_prefix(e),
                                      increment_counter(rule_naming_counter(e))))
  ELSE compose_rule_name(ag, e, new_rule_name(e))

\* the tallies of both kinds are incremented
rule_counted_both(e) ==
  [e EXCEPT !.chunks_this_d_cycle = Inc64(@),
            !.justifications_this_d_cycle = Inc64(@)]

\* the kind's tally of this decision cycle is incremented
rule_counted(e) ==
  IF e.m_rule_type = "ebc_chunk" THEN [e EXCEPT !.chunks_this_d_cycle = Inc64(@)]
  ELSE [e EXCEPT !.justifications_this_d_cycle = Inc64(@)]

\* the name is kept in m_prod_name, with the type of the production
rule_name_set(named) ==
  [ag |-> named.ag,
   ebc |-> [named.ebc EXCEPT
              !.m_prod_name = named.ret,
              !.m_prod_type = IF named.ebc.m_rule_type = "ebc_chunk"
                              THEN "CHUNK_PRODUCTION_TYPE"
                              ELSE "JUSTIFICATION_PRODUCTION_TYPE"],
   composed |-> named.composed]

\* the trace output of set_up_rule_name is left out
set_up_rule_name(ag, e) ==
  rule_name_set(generate_name_for_new_rule(ag, rule_counted(e)))

\* a state is flagged to prevent learning in it (dont-learn), or for learning
\* (force-learn): the goal is put on the list unless it is there
add_if_not_member(item, list) ==
  IF member_of_list(item, list) THEN list ELSE <<item>> \o list

(***************************************************************************)
(* The goal stack (decision_process/decider.cpp, get_state_stack_string).  *)
(* The agent is [top_goal, bottom_goal, goals, last_goal_number]; goals    *)
(* maps a goal to its record [name_number, higher_goal, lower_goal], and a *)
(* pointer to a goal is NIL or an element of DOMAIN goals.                 *)
(***************************************************************************)
MaxGoalNumber == 7

StackPrefixes == {"", "Stack: "}

\* Symbol::to_string of a goal: the letter S and the number
goal_to_string(ag, goal) == "S" \o to_string(ag.goals[goal].name_number)

RECURSIVE count_states(_, _, _)
\* while (lState->id->lower_goal) { soarStackDepth++; lState = ...lower_goal; }
count_states(ag, lState, soarStackDepth) ==
  IF ag.goals[lState].lower_goal # NIL
  THEN count_states(ag, ag.goals[lState].lower_goal, soarStackDepth + 1)
  ELSE soarStackDepth

RECURSIVE append_states(_, _, _, _)
\* while (lState) { separator unless first; append; lState = ...lower_goal; }
append_states(ag, lState, notFirstItem, stateStackStr) ==
  IF lState = NIL THEN stateStackStr
  ELSE append_states(ag, ag.goals[lState].lower_goal, TRUE,
                     (IF notFirstItem THEN stateStackStr \o ", " ELSE stateStackStr)
                       \o goal_to_string(ag, lState))

\* the branch for four goals and more that elides from four goals on
append_top_and_bottom_elides_four(ag, soarStackDepth, stateStackStr) ==
  stateStackStr
    \o goal_to_string(ag, ag.top_goal)
    \o ", "
    \o goal_to_string(ag, ag.goals[ag.top_goal].lower_goal)
    \o (IF soarStackDepth > 3 THEN " ... " ELSE ", ")
    \o goal_to_string(ag, ag.goals[ag.bottom_goal].higher_goal)
    \o ", "
    \o goal_to_string(ag, ag.bottom_goal)

\* the branch for four goals and more
append_top_and_bottom(ag, soarStackDepth, stateStackStr) ==
  stateStackStr
    \o goal_to_string(ag, ag.top_goal)
    \o ", "
    \o goal_to_string(ag, ag.goals[ag.top_goal].lower_goal)
    \o (IF soarStackDepth > 4 THEN " ... " ELSE ", ")
    \o goal_to_string(ag, ag.goals[ag.bottom_goal].higher_goal)
    \o ", "
    \o goal_to_string(ag, ag.bottom_goal)

stack_string_for(ag, soarStackDepth, stateStackStr) ==
  [ret |-> soarStackDepth,
   stateStackStr |->
     IF soarStackDepth < 4
     THEN append_states(ag, ag.top_goal, FALSE, stateStackStr)
     ELSE append_top_and_bottom(ag, soarStackDepth, stateStackStr)]

get_state_stack_string(ag, stateStackStr) ==
  stack_string_for(ag, count_states(ag, ag.top_goal, 1), stateStackStr)

(***************************************************************************)
(* The calls the model makes.                                              *)
(***************************************************************************)
\* snap remembers the agent as it was before the latest make_variable,
\* make_sym_constant or make_int_constant (phase "made"), and keeps it when the
\* very next call releases the reference that call returned (phase "released")
NoSnap == [phase |-> "none", pre |-> NIL, sym |-> NIL, key_live |-> FALSE]

\* last_id[i] remembers the latest identifier made for letter i since the last
\* successful reset_id_counters: its number; in_step, whether the call left the
\* counter one past that number (number omitted, or given and not below the
\* counter); follows, whether its number was omitted and the identifier made
\* before it for the letter was in_step
NoLastId ==
  [i \in 0 .. 25 |->
     [made |-> FALSE, number |-> 0, in_step |-> FALSE, follows |-> FALSE]]

\* seen remembers, of the explanation-based chunker: gate, one earlier call of
\* set_learning_for_instantiation made with the state flags as they still are
\* (its instantiation, its result, and whether a call since was refused); names,
\* the rule names given so far; repeated, whether a rule was given a name that an
\* earlier rule had been given
NoGate == [made |-> FALSE, inst |-> NIL, ret |-> FALSE, refused_since |-> FALSE]

NoSeen == [gate |-> NoGate, names |-> {}, repeated |-> FALSE]

\* the references callers hold on sym
HeldCount(sym) == IF sym \in DOMAIN held THEN held[sym] ELSE 0

HeldPlus(sym) ==
  [a \in (DOMAIN held) \cup {sym} |-> IF a = sym THEN HeldCount(sym) + 1 ELSE held[a]]

HeldMinus(sym) ==
  [a \in {x \in DOMAIN held : x # sym \/ held[x] > 1} |->
     IF a = sym THEN held[a] - 1 ELSE held[a]]

Live(ag) == DOMAIN ag.symbols

\* a make_xxx call: r is what the routine yields
MakeCall(name, args, r) ==
  /\ r.ag.current_symbol_hash_id <= HashIdStep * MaxAlloc
  /\ HeldCount(r.ret) < MaxRef
  /\ agent' = r.ag
  /\ op' = [name |-> name, args |-> args, ret |-> r.ret]
  /\ held' = HeldPlus(r.ret)

\* a find_xxx call
FindCall(name, args, r) ==
  /\ agent' = r.ag
  /\ op' = [name |-> name, args |-> args, ret |-> r.ret]
  /\ UNCHANGED held

MakeVariable(name) ==
  /\ MakeCall("make_variable", <<name>>, make_variable(agent, name))
  /\ snap' = [phase |-> "made", pre |-> agent, sym |-> make_variable(agent, name).ret,
              key_live |-> find_variable(agent, name).ret # NIL]
  /\ UNCHANGED <<last_id, ebc, seen>>

MakeSymConstant(name) ==
  /\ MakeCall("make_sym_constant", <<name>>, make_sym_constant(agent, name))
  /\ snap' = [phase |-> "made", pre |-> agent,
              sym |-> make_sym_constant(agent, name).ret,
              key_live |-> find_sym_constant(agent, name).ret # NIL]
  /\ UNCHANGED <<last_id, ebc, seen>>

MakeIntConstant(value) ==
  /\ MakeCall("make_int_constant", <<value>>, make_int_constant(agent, value))
  /\ snap' = [phase |-> "made", pre |-> agent,
              sym |-> make_int_constant(agent, value).ret,
              key_live |-> find_int_constant(agent, value).ret # NIL]
  /\ UNCHANGED <<last_id, ebc, seen>>

MakeFloatConstant(value) ==
  /\ MakeCall("make_float_constant", <<value>>, make_float_constant(agent, value))
  /\ snap' = NoSnap
  /\ UNCHANGED <<last_id, ebc, seen>>

FindVariable(name) ==
  /\ FindCall("find_variable", <<name>>, find_variable(agent, name))
  /\ snap' = NoSnap
  /\ UNCHANGED <<last_id, ebc, seen>>

FindSymConstant(name) ==
  /\ FindCall("find_sym_constant", <<name>>, find_sym_constant(agent, name))
  /\ snap' = NoSnap
  /\ UNCHANGED <<last_id, ebc, seen>>

FindIntConstant(value) ==
  /\ FindCall("find_int_constant", <<value>>, find_int_constant(agent, value))
  /\ snap' = NoSnap
  /\ UNCHANGED <<last_id, ebc, seen>>

FindFloatConstant(value) ==
  /\ FindCall("find_float_constant", <<value>>, find_float_constant(agent, value))
  /\ snap' = NoSnap
  /\ UNCHANGED <<last_id, ebc, seen>>

FindIdentifier(name_letter, name_number) ==
  /\ FindCall("find_identifier", <<name_letter, name_number>>,
              find_identifier(agent, name_letter, name_number))
  /\ snap' = NoSnap
  /\ UNCHANGED <<last_id, ebc, seen>>

\* a caller that holds a reference takes another one
SymbolAddRef(sym) ==
  /\ sym \in Live(agent)
  /\ HeldCount(sym) > 0
  /\ HeldCount(sym) < MaxRef
  /\ agent' = symbol_add_ref(agent, sym)
  /\ op' = [name |-> "symbol_add_ref", args |-> <<sym>>, ret |-> NIL]
  /\ held' = HeldPlus(sym)
  /\ snap' = NoSnap
  /\ UNCHANGED <<last_id, ebc, seen>>

\* a caller releases a reference it holds
SymbolRemoveRef(sym) ==
  /\ sym \in Live(agent)
  /\ HeldCount(sym) > 0
  /\ agent' = symbol_remove_ref(agent, sym)
  /\ op' = [name |-> "symbol_remove_ref", args |-> <<sym>>, ret |-> NIL]
  /\ held' = HeldMinus(sym)
  /\ snap' = IF snap.phase = "made" /\ snap.sym = sym
             THEN [snap EXCEPT !.phase = "released"]
             ELSE NoSnap
  /\ UNCHANGED <<last_id, ebc, seen>>

MakeNewIdentifier(name_letter, level, name_number) ==
  LET r == make_new_identifier(agent, name_letter, level, name_number)
      made == r.ag.symbols[r.ret]
  IN /\ MakeCall("make_new_identifier", <<name_letter, level, name_number>>, r)
     /\ last_id' = [last_id EXCEPT ![letter_index(made.name_letter)] =
                      [made |-> TRUE, number |-> made.name_number,
                       in_step |-> \/ name_number = NIL
                                   \/ Geq64(name_number,
                                            agent.id_counter[
                                              letter_index(made.name_letter)]),
                       follows |-> /\ name_number = NIL
                                   /\ last_id[letter_index(made.name_letter)].made
                                   /\ last_id[letter_index(made.name_letter)].in_step]]
     /\ snap' = NoSnap
     /\ UNCHANGED <<ebc, seen>>

SmemSetLti(sym) ==
  /\ sym \in Live(agent)
  /\ agent.symbols[sym].symbol_type = IDENTIFIER_SYMBOL_TYPE
  /\ agent.symbols[sym].smem_lti = NIL
  /\ agent' = smem_set_lti(agent, sym)
  /\ op' = [name |-> "smem_set_lti", args |-> <<sym>>, ret |-> NIL]
  /\ snap' = NoSnap
  /\ UNCHANGED <<held, last_id, ebc, seen>>

ResetIdCounters(smem_connected) ==
  LET r == reset_id_counters(agent, smem_connected)
  IN /\ agent' = r.ag
     /\ op' = [name |-> "reset_id_counters", args |-> <<smem_connected>>,
               ret |-> r.ret, file |-> r.file, notified |-> r.notified]
     /\ last_id' = IF r.ret THEN NoLastId ELSE last_id
     /\ snap' = NoSnap
     /\ UNCHANGED held
     /\ UNCHANGED <<ebc, seen>>

InitWith(agents) ==
  /\ agent \in agents
  /\ op = [name |-> "init_symbol_tables", args |-> <<>>, ret |-> NIL]
  /\ held = <<>>
  /\ snap = NoSnap
  /\ last_id = NoLastId
  /\ ebc = NIL
  /\ seen = NoSeen

\* the five kinds of symbol: interning, lookup and release
Next ==
  \/ \E name \in VariableNames : MakeVariable(name)
  \/ \E name \in SymConstantNames : MakeSymConstant(name)
  \/ \E value \in IntValues : MakeIntConstant(value)
  \/ \E value \in FloatValues : MakeFloatConstant(value)
  \/ \E l \in LevelInputs : MakeNewIdentifier(115, l, NIL)
  \/ \E name \in VariableNames : FindVariable(name)
  \/ \E name \in SymConstantNames : FindSymConstant(name)
  \/ \E value \in IntValues : FindIntConstant(value)
  \/ \E value \in FloatValues : FindFloatConstant(value)
  \/ \E k \in IdKeys : FindIdentifier(k[1], k[2])
  \/ \E sym \in Live(agent) : SymbolRemoveRef(sym)

Init == InitWith({init_symbol_tables(FALSE, w) : w \in NanWords})

Spec == Init /\ [][Next]_vars

\* identifiers: creation, release, long-term identifiers and the counters
NextId ==
  \/ \E i \in IdInputs, l \in LevelInputs : MakeNewIdentifier(i[1], l, i[2])
  \/ \E sym \in Live(agent) : SymbolAddRef(sym)
  \/ \E sym \in Live(agent) : SymbolRemoveRef(sym)
  \/ \E sym \in Live(agent) : SmemSetLti(sym)
  \/ \E smem_connected \in BOOLEAN : ResetIdCounters(smem_connected)

InitId == InitWith({init_symbol_tables(c, Zero32) : c \in BOOLEAN})

SpecId == InitId /\ [][NextId]_vars

(***************************************************************************)
(* The learning gate.                                                      *)
(***************************************************************************)
GoalNames == {"S1", "S2"}

\* a match in the top state and matches in a substate
GateInstantiations ==
  {Instantiation("S1", TOP_GOAL_LEVEL, b, "NONE_IMPASSE_TYPE",
                 <<[original_rule_name |-> "mv"]>>, 0) : b \in BOOLEAN}
  \cup
  {Instantiation("S2", TOP_GOAL_LEVEL + 1, b, "TIE_IMPASSE_TYPE",
                 <<[original_rule_name |-> "mv"]>>, 0) : b \in BOOLEAN}

SetLearningForInstantiation(trace_chunk_warnings, inst) ==
  LET r == set_learning_for_instantiation(ebc, trace_chunk_warnings, inst)
  IN /\ ebc' = r.ebc
     /\ op' = [name |-> "set_learning_for_instantiation",
               args |-> <<trace_chunk_warnings, inst>>, ret |-> r.ret,
               printed |-> r.printed]
     /\ \/ seen' = [seen EXCEPT !.gate.refused_since = @ \/ (seen.gate.made /\ ~r.ret)]
        \/ seen' = [seen EXCEPT !.gate = [made |-> TRUE, inst |-> inst, ret |-> r.ret,
                                          refused_since |-> FALSE]]
     /\ UNCHANGED <<agent, held, snap, last_id>>

Reinit ==
  /\ ebc' = reinit(ebc)
  /\ op' = [name |-> "reinit", args |-> <<>>, ret |-> NIL]
  /\ seen' = [seen EXCEPT !.gate = NoGate]
  /\ UNCHANGED <<agent, held, snap, last_id>>

DontLearn(goal) ==
  /\ ebc' = [ebc EXCEPT !.chunk_free_problem_spaces = add_if_not_member(goal, @)]
  /\ op' = [name |-> "dont-learn", args |-> <<goal>>, ret |-> NIL]
  /\ seen' = [seen EXCEPT !.gate = NoGate]
  /\ UNCHANGED <<agent, held, snap, last_id>>

ForceLearn(goal) ==
  /\ ebc' = [ebc EXCEPT !.chunky_problem_spaces = add_if_not_member(goal, @)]
  /\ op' = [name |-> "force-learn", args |-> <<goal>>, ret |-> NIL]
  /\ seen' = [seen EXCEPT !.gate = NoGate]
  /\ UNCHANGED <<agent, held, snap, last_id>>

NextGate ==
  \/ \E t \in BOOLEAN, inst \in GateInstantiations :
       SetLearningForInstantiation(t, inst)
  \/ Reinit
  \/ \E goal \in GoalNames : DontLearn(goal)
  \/ \E goal \in GoalNames : ForceLearn(goal)

InitGate ==
  /\ agent = init_symbol_tables(FALSE, Zero32)
  /\ op = [name |-> "init_symbol_tables", args |-> <<>>, ret |-> NIL]
  /\ held = <<>>
  /\ snap = NoSnap
  /\ last_id = NoLastId
  /\ ebc \in {Explanation_Based_Chunker([init_count |-> 0, d_cycle_count |-> 0],
                                         settings, "ruleFormat") :
                settings \in [EbcSettings -> BOOLEAN]}
  /\ seen = NoSeen

SpecGate == InitGate /\ [][NextGate]_vars

(***************************************************************************)
(* The naming of learned rules.                                            *)
(***************************************************************************)
\* the names of the symbolic constants in the table
str_constant_names(ag) ==
  LET items == all_items(ag.tables[SYM_CONSTANT_SYMBOL_TYPE])
  IN {ag.symbols[items[i]].name : i \in 1 .. Len(items)}

\* the attempt to learn a rule of kind rule_type from inst
learning_attempt(e, rule_type, inst) ==
  [e EXCEPT !.m_rule_type = rule_type,
            !.m_inst = <<inst>>,
            !.m_chunk_inst = <<[prod_naming_depth |-> 0]>>]

\* a call of set_up_rule_name: r is what the routine yields; op.before keeps the
\* kind's naming counter and the interned names as the call found them
NameCall(rule_type, inst, r) ==
  /\ ebc.thisAgent.d_cycle_count > 0
  /\ rule_number(learning_attempt(ebc, rule_type, inst)) < MaxSeq
  /\ r.ag.current_symbol_hash_id <= HashIdStep * MaxNames
  /\ agent' = r.ag
  /\ ebc' = r.ebc
  /\ op' = [name |-> "set_up_rule_name", args |-> <<rule_type, inst>>,
            ret |-> r.ebc.m_prod_name, composed |-> r.composed,
            before |-> [counter |-> rule_naming_counter(
                                      learning_attempt(ebc, rule_type, inst)),
                        interned |-> str_constant_names(agent)]]
  /\ held' = HeldPlus(r.ebc.m_prod_name)
  /\ seen' = [seen EXCEPT
                !.names = @ \cup {r.ag.symbols[r.ebc.m_prod_name].name},
                !.repeated = @ \/ r.ag.symbols[r.ebc.m_prod_name].name \in seen.names]
  /\ UNCHANGED <<snap, last_id>>

\* a rule of kind rule_type is learned from inst, in a decision cycle, and gets
\* its name
SetUpRuleName(rule_type, inst) ==
  NameCall(rule_type, inst,
           set_up_rule_name(agent, learning_attempt(ebc, rule_type, inst)))

\* the decision loop starts the next decision cycle
DecisionCycle ==
  /\ ebc.thisAgent.d_cycle_count < MaxCycle
  /\ ebc' = [ebc EXCEPT !.thisAgent.d_cycle_count = @ + 1,
                        !.chunks_this_d_cycle = 0,
                        !.justifications_this_d_cycle = 0]
  /\ op' = [name |-> "decision cycle", args |-> <<>>, ret |-> NIL]
  /\ UNCHANGED <<agent, held, snap, last_id, seen>>

\* the rules of a file are loaded: each name is interned
RECURSIVE load_rules(_, _, _)
with_rule_loaded(made, names, syms) ==
  load_rules(made.ag, names, syms \cup {made.ret})

load_rules(ag, names, syms) ==
  IF names = <<>> THEN [ag |-> ag, ret |-> syms]
  ELSE with_rule_loaded(make_sym_constant(ag, Head(names)), Tail(names), syms)

\* r is what loading the file yields
LoadCall(names, r) ==
  /\ ebc.thisAgent.d_cycle_count = 0
  /\ agent.current_symbol_hash_id = 0
  /\ agent' = r.ag
  /\ op' = [name |-> "load rules", args |-> <<names>>, ret |-> NIL]
  /\ held' = [sym \in r.ret |-> 1]
  /\ UNCHANGED <<snap, last_id, ebc, seen>>

\* a file of rules is loaded, before the agent runs
LoadRules(names) == LoadCall(names, load_rules(agent, names, {}))

\* a learned rule is excised: the reference to its name is released
ExciseRule(sym) ==
  /\ sym \in Live(agent)
  /\ agent.symbols[sym].name \in seen.names
  /\ HeldCount(sym) > 0
  /\ agent' = symbol_remove_ref(agent, sym)
  /\ op' = [name |-> "symbol_remove_ref", args |-> <<sym>>, ret |-> NIL]
  /\ held' = HeldMinus(sym)
  /\ UNCHANGED <<snap, last_id, ebc, seen>>

\* the rules learned: a chunk from each instantiation, a justification from
\* those under a tie
NamerAttempts ==
  {<<"ebc_chunk", inst>> : inst \in NamerInstantiations}
  \cup {<<"ebc_justification", inst>> :
          inst \in {i \in NamerInstantiations :
                      /\ i.match_goal.higher_goal_impasse_type = "TIE_IMPASSE_TYPE"
                      /\ i.prod_naming_depth = 0}}

NextNamer ==
  \/ \E attempt \in NamerAttempts : SetUpRuleName(attempt[1], attempt[2])
  \/ DecisionCycle
  \/ \E names \in RuleFiles : LoadRules(names)

NamingStyles == {"numberedFormat", "ruleFormat"}

InitNamer ==
  /\ agent = init_symbol_tables(FALSE, Zero32)
  /\ op = [name |-> "init_symbol_tables", args |-> <<>>, ret |-> NIL]
  /\ held = <<>>
  /\ snap = NoSnap
  /\ last_id = NoLastId
  /\ \E init_count \in {0, 1}, learning \in BOOLEAN, naming_style \in NamingStyles :
       ebc = Explanation_Based_Chunker(
               [init_count |-> init_count, d_cycle_count |-> 0],
               [setting \in EbcSettings |->
                  setting = "SETTING_EBC_LEARNING_ON" /\ learning],
               naming_style)
  /\ seen = NoSeen

SpecNamer == InitNamer /\ [][NextNamer]_vars

\* A run with initialisations and excisions: the rules learned are a chunk and a
\* justification from a match of mv under a tie
RunAttempts ==
  {attempt \in NamerAttempts :
     /\ attempt[2].match_goal.higher_goal_impasse_type = "TIE_IMPASSE_TYPE"
     /\ attempt[2].prod # NULL
     /\ attempt[2].prod_naming_depth = 0}

NextRun ==
  \/ \E attempt \in RunAttempts : SetUpRuleName(attempt[1], attempt[2])
  \/ DecisionCycle
  \/ Reinit
  \/ \E names \in RuleFiles : LoadRules(names)
  \/ \E sym \in Live(agent) : ExciseRule(sym)

SpecRun == InitNamer /\ [][NextRun]_vars

(***************************************************************************)
(* The predefined symbols among other callers: the agent makes them once,  *)
(* callers intern and release names of their own, some of them predefined, *)
(* and the agent releases its symbols.                                     *)
(***************************************************************************)
PredefinedCount ==
  Cardinality({<<PredefinedSymbols[i].make, PredefinedSymbols[i].name>> :
                 i \in DOMAIN PredefinedSymbols})

\* "wait" is predefined as a variable and interned by callers as a constant
CallerSymConstantNames == SymConstantNames \cup {"wait"}

Created(ag) == "predefined" \in DOMAIN ag

Released(ag) == /\ Created(ag)
                /\ \A f \in PredefinedFields : ag.predefined[f] = NIL

\* a make_xxx call of another caller, while the agent has its symbols
CallerMake(name, args, r) ==
  /\ Created(agent)
  /\ ~Released(agent)
  /\ r.ag.current_symbol_hash_id <= HashIdStep * (PredefinedCount + MaxAlloc)
  /\ HeldCount(r.ret) < MaxRef
  /\ agent' = r.ag
  /\ op' = [name |-> name, args |-> args, ret |-> r.ret]
  /\ held' = HeldPlus(r.ret)
  /\ snap' = NoSnap
  /\ UNCHANGED <<last_id, ebc, seen>>

CallerMakeVariable(name) ==
  CallerMake("make_variable", <<name>>, make_variable(agent, name))

CallerMakeSymConstant(name) ==
  CallerMake("make_sym_constant", <<name>>, make_sym_constant(agent, name))

CreatePredefinedSymbols ==
  /\ ~Created(agent)
  /\ agent' = create_predefined_symbols(agent)
  /\ op' = [name |-> "create_predefined_symbols", args |-> <<>>, ret |-> NIL]
  /\ snap' = NoSnap
  /\ UNCHANGED <<held, last_id, ebc, seen>>

ReleasePredefinedSymbols ==
  /\ Created(agent)
  /\ ~Released(agent)
  /\ agent' = release_predefined_symbols(agent)
  /\ op' = [name |-> "release_predefined_symbols", args |-> <<>>, ret |-> NIL]
  /\ snap' = NoSnap
  /\ UNCHANGED <<held, last_id, ebc, seen>>

NextPredefined ==
  \/ CreatePredefinedSymbols
  \/ ReleasePredefinedSymbols
  \/ \E name \in VariableNames : CallerMakeVariable(name)
  \/ \E name \in CallerSymConstantNames : CallerMakeSymConstant(name)
  \/ \E name \in VariableNames : FindVariable(name)
  \/ \E name \in CallerSymConstantNames : FindSymConstant(name)
  \/ \E sym \in Live(agent) : SymbolRemoveRef(sym)

InitPredefined == InitWith({init_symbol_tables(FALSE, w) : w \in NanWords})

SpecPredefined == InitPredefined /\ [][NextPredefined]_vars

(***************************************************************************)
(* The sweeps: symbols of the five kinds are interned and released, a      *)
(* traversal marks a symbol (tc_num), a variable generator numbers a       *)
(* variable (gensym_number), and the sweeps clear the marks.               *)
(***************************************************************************)
TcNumbers == {1}

GensymNumbers == {1}

\* a traversal marks the symbol
MarkTcNum(sym, tc) ==
  /\ sym \in Live(agent)
  /\ agent' = [agent EXCEPT !.symbols[sym].tc_num = tc]
  /\ op' = [name |-> "mark_tc_num", args |-> <<sym, tc>>, ret |-> NIL]
  /\ snap' = NoSnap
  /\ UNCHANGED <<held, last_id, ebc, seen>>

\* a variable generator leaves its number in the variable
SetGensymNumber(sym, n) ==
  /\ sym \in Live(agent)
  /\ agent.symbols[sym].symbol_type = VARIABLE_SYMBOL_TYPE
  /\ agent' = [agent EXCEPT !.symbols[sym].gensym_number = n]
  /\ op' = [name |-> "set_gensym_number", args |-> <<sym, n>>, ret |-> NIL]
  /\ snap' = NoSnap
  /\ UNCHANGED <<held, last_id, ebc, seen>>

\* snap keeps the agent the sweep started from
ResetIdAndVariableTcNumbers ==
  /\ agent' = reset_id_and_variable_tc_numbers(agent)
  /\ op' = [name |-> "reset_id_and_variable_tc_numbers", args |-> <<>>, ret |-> NIL]
  /\ snap' = [NoSnap EXCEPT !.phase = "swept", !.pre = agent]
  /\ UNCHANGED <<held, last_id, ebc, seen>>

ResetVariableGensymNumbers ==
  /\ agent' = reset_variable_gensym_numbers(agent)
  /\ op' = [name |-> "reset_variable_gensym_numbers", args |-> <<>>, ret |-> NIL]
  /\ snap' = [NoSnap EXCEPT !.phase = "swept", !.pre = agent]
  /\ UNCHANGED <<held, last_id, ebc, seen>>

NextSweep ==
  \/ \E name \in VariableNames : MakeVariable(name)
  \/ \E name \in SymConstantNames : MakeSymConstant(name)
  \/ \E value \in IntValues : MakeIntConstant(value)
  \/ \E value \in FloatValues : MakeFloatConstant(value)
  \/ \E l \in LevelInputs : MakeNewIdentifier(115, l, NIL)
  \/ \E sym \in Live(agent) : SymbolRemoveRef(sym)
  \/ \E sym \in Live(agent), tc \in TcNumbers : MarkTcNum(sym, tc)
  \/ \E sym \in Live(agent), n \in GensymNumbers : SetGensymNumber(sym, n)
  \/ ResetIdAndVariableTcNumbers
  \/ ResetVariableGensymNumbers

InitSweep == InitWith({init_symbol_tables(FALSE, w) : w \in NanWords})

SpecSweep == InitSweep /\ [][NextSweep]_vars

(***************************************************************************)
(* The controller over a run: rules are named, the timers run during a     *)
(* learning attempt, and the agent is initialised again.                   *)
(***************************************************************************)
\* a learning attempt with the timers on: the timers have run since the reset
RunTimers ==
  /\ ebc.ebc_timers # "run"
  /\ ebc' = [ebc EXCEPT !.ebc_timers = "run"]
  /\ op' = [name |-> "timers run", args |-> <<>>, ret |-> NIL]
  /\ UNCHANGED <<agent, held, snap, last_id, seen>>

NextController ==
  \/ \E attempt \in RunAttempts : SetUpRuleName(attempt[1], attempt[2])
  \/ DecisionCycle
  \/ Reinit
  \/ RunTimers

SpecController == InitNamer /\ [][NextController]_vars

(***************************************************************************)
(* The goal stack over a run: the decider adds a substate below the bottom *)
(* goal or removes the bottom goal, and the stack is printed.              *)
(***************************************************************************)
Goal(name_number, higher_goal) ==
  [name_number |-> name_number, higher_goal |-> higher_goal, lower_goal |-> NIL]

\* a substate is created below the bottom goal; its identifier has the next
\* number of the letter S or, when other S identifiers were made, a later one
CreateNewContext(name_number) ==
  /\ name_number > agent.last_goal_number
  /\ agent' = [agent EXCEPT
                 !.goals = (name_number :> Goal(name_number, agent.bottom_goal))
                             @@ [@ EXCEPT ![agent.bottom_goal].lower_goal =
                                            name_number],
                 !.bottom_goal = name_number,
                 !.last_goal_number = name_number]
  /\ op' = [name |-> "create_new_context", args |-> <<name_number>>, ret |-> NIL]
  /\ UNCHANGED <<held, snap, last_id, ebc, seen>>

\* the bottom goal is removed
RemoveBottomGoal ==
  /\ agent.bottom_goal # agent.top_goal
  /\ agent' = [agent EXCEPT
                 !.goals = [g \in (DOMAIN @) \ {agent.bottom_goal} |->
                              IF g = @[agent.bottom_goal].higher_goal
                              THEN [@[g] EXCEPT !.lower_goal = NIL]
                              ELSE @[g]],
                 !.bottom_goal = agent.goals[agent.bottom_goal].higher_goal]
  /\ op' = [name |-> "remove_existing_context", args |-> <<>>, ret |-> NIL]
  /\ UNCHANGED <<held, snap, last_id, ebc, seen>>

GetStateStackString(stateStackStr) ==
  /\ op' = [name |-> "get_state_stack_string", args |-> <<stateStackStr>>,
            ret |-> get_state_stack_string(agent, stateStackStr).ret,
            stateStackStr |->
              get_state_stack_string(agent, stateStackStr).stateStackStr]
  /\ UNCHANGED <<agent, held, snap, last_id, ebc, seen>>

NextStack ==
  \/ \E name_number \in 2 .. MaxGoalNumber : CreateNewContext(name_number)
  \/ RemoveBottomGoal
  \/ \E stateStackStr \in StackPrefixes : GetStateStackString(stateStackStr)

\* the top state S1 alone
InitStack ==
  /\ agent = [top_goal |-> 1, bottom_goal |-> 1, goals |-> (1 :> Goal(1, NIL)),
              last_goal_number |-> 1]
  /\ op = [name |-> "create_top_goal", args |-> <<>>, ret |-> NIL]
  /\ held = <<>>
  /\ snap = NoSnap
  /\ last_id = NoLastId
  /\ ebc = NIL
  /\ seen = NoSeen

SpecStack == InitStack /\ [][NextStack]_vars

(***************************************************************************)
(* The back-reference slots: symbols are interned and released while the   *)
(* variablization code fills the slots of live symbols.                    *)
(***************************************************************************)
BackReferenceSlots ==
  {"variablized_symbol", "unvariablized_symbol", "original_var_symbol"}

BackReferences(ag, sym) ==
  <<ag.symbols[sym].variablized_symbol, ag.symbols[sym].unvariablized_symbol,
    ag.symbols[sym].original_var_symbol>>

\* the variablization code points a slot of sym at target
SetBackReference(sym, slot, target) ==
  /\ sym \in Live(agent)
  /\ target \in Live(agent)
  /\ BackReferences(agent, sym) = <<NIL, NIL, NIL>>
  /\ agent' = [agent EXCEPT !.symbols[sym] = [@ EXCEPT ![slot] = target]]
  /\ op' = [name |-> "set_back_reference", args |-> <<sym, slot, target>>, ret |-> NIL]
  /\ snap' = NoSnap
  /\ UNCHANGED <<held, last_id, ebc, seen>>

\* the last reference to sym is released: symbol_remove_ref deallocates it;
\* op keeps the slots of sym as they were
ReleaseLastReference(sym) ==
  /\ sym \in Live(agent)
  /\ HeldCount(sym) = 1
  /\ agent.symbols[sym].reference_count = 1
  /\ agent' = symbol_remove_ref(agent, sym)
  /\ op' = [name |-> "deallocate_symbol", args |-> <<sym>>, ret |-> NIL,
            slots |-> BackReferences(agent, sym)]
  /\ held' = HeldMinus(sym)
  /\ snap' = NoSnap
  /\ UNCHANGED <<last_id, ebc, seen>>

\* a reference that is not the last one is released
ReleaseReference(sym) ==
  /\ agent.symbols[sym].reference_count > 1
  /\ SymbolRemoveRef(sym)

NextWeak ==
  \/ \E name \in VariableNames : MakeVariable(name)
  \/ \E name \in SymConstantNames : MakeSymConstant(name)
  \/ \E value \in IntValues : MakeIntConstant(value)
  \/ \E value \in FloatValues : MakeFloatConstant(value)
  \/ \E l \in LevelInputs : MakeNewIdentifier(115, l, NIL)
  \/ \E sym \in Live(agent), target \in Live(agent), slot \in BackReferenceSlots :
       SetBackReference(sym, slot, target)
  \/ \E sym \in Live(agent) : ReleaseReference(sym)
  \/ \E sym \in Live(agent) : ReleaseLastReference(sym)

InitWeak == InitWith({init_symbol_tables(FALSE, Zero32)})

SpecWeak == InitWeak /\ [][NextWeak]_vars

(***************************************************************************)
(* The letter of a new identifier.  name_letter is a char, here a signed   *)
(* byte.  isalpha, islower and toupper are defined by the C locale for the *)
(* values 0 .. 127; for any other value their result depends on the locale *)
(* in force and, for a negative value, is not defined by the language: the *)
(* result is then any of the results a C library gives.                    *)
(***************************************************************************)
CharValues == -128 .. 127

\* the identifiers allocated in a run over the letters
MaxLetterAlloc == 1

CtypeResults(c) ==
  IF c \in 0 .. 127
  THEN {[isalpha |-> isalpha(c), islower |-> islower(c), toupper |-> toupper(c)]}
  ELSE {[isalpha |-> FALSE, islower |-> FALSE, toupper |-> c],
        [isalpha |-> TRUE, islower |-> FALSE, toupper |-> c]}
       \cup {[isalpha |-> TRUE, islower |-> TRUE, toupper |-> u] :
               u \in {c, c - 32} \cap CharValues}

\* the letter make_new_identifier stores, given what the three routines answer
stored_letter(name_letter, ctype) ==
  IF ctype.isalpha
  THEN (IF ctype.islower THEN ctype.toupper ELSE name_letter)
  ELSE 73

\* make_new_identifier(thisAgent, name_letter, level, NIL); op keeps the letter
\* stored and the index name_letter - 'A' used on id_counter.  With the index
\* outside the array the call reads and writes beside it: nothing of the
\* model's agent is then relied on, and the agent is left as it was
MakeNewIdentifierOfChar(name_letter, ctype, level) ==
  LET letter == stored_letter(name_letter, ctype)
      index == letter_index(letter)
      in_array == index \in DOMAIN agent.id_counter
  IN /\ agent.current_symbol_hash_id < HashIdStep * MaxLetterAlloc
     /\ agent' = IF in_array
                 THEN make_new_identifier(agent, letter, level, NIL).ag
                 ELSE agent
     /\ op' = [name |-> "make_new_identifier", args |-> <<name_letter, level, NIL>>,
               ret |-> IF in_array
                       THEN make_new_identifier(agent, letter, level, NIL).ret
                       ELSE NIL,
               ctype |-> ctype, letter |-> letter, index |-> index]
     /\ held' = IF in_array
                THEN HeldPlus(make_new_identifier(agent, letter, level, NIL).ret)
                ELSE held
     /\ snap' = NoSnap
     /\ UNCHANGED <<last_id, ebc, seen>>

NextLetter ==
  \/ \E name_letter \in CharValues, l \in LevelInputs :
       \E ctype \in CtypeResults(name_letter) :
         MakeNewIdentifierOfChar(name_letter, ctype, l)
  \/ \E sym \in Live(agent) : SymbolRemoveRef(sym)

InitLetter == InitWith({init_symbol_tables(FALSE, Zero32)})

SpecLetter == InitLetter /\ [][NextLetter]_vars

(***************************************************************************)
(* Deallocation of a record that is no symbol: the tag of a record is      *)
(* overwritten by a value that is none of the five kinds, and the record's *)
(* last reference is released.  abort_with_fatal_error ends the program.   *)
(***************************************************************************)
NonSymbolTypes == {"tag 5", "tag 255"}

\* the tag of a record is not, or no longer, one of the five kinds
OverwriteSymbolType(sym, type) ==
  /\ sym \in Live(agent)
  /\ agent.symbols[sym].symbol_type \in SymbolTypes
  /\ agent' = [agent EXCEPT !.symbols[sym].symbol_type = type]
  /\ op' = [name |-> "overwrite symbol_type", args |-> <<sym, type>>, ret |-> NIL]
  /\ snap' = NoSnap
  /\ UNCHANGED <<held, last_id, ebc, seen>>

\* a reference is released; snap keeps the agent as the call found it
ReleaseFrom(sym) ==
  /\ sym \in Live(agent)
  /\ HeldCount(sym) > 0
  /\ agent' = symbol_remove_ref(agent, sym)
  /\ op' = [name |-> "symbol_remove_ref", args |-> <<sym>>, ret |-> NIL]
  /\ held' = HeldMinus(sym)
  /\ snap' = [NoSnap EXCEPT !.phase = "released", !.pre = agent, !.sym = sym]
  /\ UNCHANGED <<last_id, ebc, seen>>

\* abort_with_fatal_error has not been called
Running == agent.fatal_error = ""

NextAbort ==
  \/ \E name \in VariableNames : Running /\ MakeVariable(name)
  \/ \E name \in SymConstantNames : Running /\ MakeSymConstant(name)
  \/ \E value \in IntValues : Running /\ MakeIntConstant(value)
  \/ \E sym \in Live(agent), type \in NonSymbolTypes :
       Running /\ OverwriteSymbolType(sym, type)
  \/ \E sym \in Live(agent) : Running /\ ReleaseFrom(sym)

InitAbort == InitWith({init_symbol_tables(FALSE, Zero32)})

SpecAbort == InitAbort /\ [][NextAbort]_vars

(***************************************************************************)
(* Keys that agree in the 32 bits that are hashed: the integers 7 and      *)
(* 2^32 + 7, and the identifiers S1 and S(2^32 + 1).                       *)
(***************************************************************************)
\* the identifiers asked for: 's' with the number omitted, or given as 2^32 + 1
WideIdInputs == {<<115, NIL>>, <<115, Above32 + 1>>}

\* the identifiers looked up
WideIdKeys == {<<83, 1>>, <<83, 2>>, <<83, Above32 + 1>>, <<83, Above32 + 2>>}

NextWide ==
  \/ \E value \in IntValues : MakeIntConstant(value)
  \/ \E value \in IntValues : FindIntConstant(value)
  \/ \E i \in WideIdInputs, l \in LevelInputs : MakeNewIdentifier(i[1], l, i[2])
  \/ \E k \in WideIdKeys : FindIdentifier(k[1], k[2])
  \/ \E sym \in Live(agent) : SymbolRemoveRef(sym)

InitWide == InitWith({init_symbol_tables(FALSE, Zero32)})

SpecWide == InitWide /\ [][NextWide]_vars

(***************************************************************************)
(* compress, pass by pass through its loop.                                *)
(***************************************************************************)
\* the word with the bits of set S
Bits(S) == [i \in BitIndex |-> IF i \in S THEN 1 ELSE 0]

\* the hashes compressed: 0, 0xFFFFFFFF, the halves, single bits, bits that the
\* folds bring together, and the hash of a name
HashWords ==
  {Bits({}), Bits(BitIndex), Bits(0 .. 15), Bits(16 .. 31),
   Bits({0}), Bits({7}), Bits({15}), Bits({16}), Bits({31}),
   Bits({0, 16}), Bits({0, 8}), Bits({3, 11, 19, 27}), Bits({5, 10}),
   Bits({i \in BitIndex : i % 2 = 0}), hash_string("state")}

\* the widths the tables can have
NumBits == 1 .. (WordBits - 1)

\* no call of compress is under way
NoCompressRunning == IF op.name = "compress" THEN op.pc = "done" ELSE TRUE

\* compress is called and runs up to its loop
CompressCall(h, num_bits) ==
  /\ NoCompressRunning
  /\ op' = [name |-> "compress", args |-> <<h, num_bits>>, pc |-> "loop",
            passes |-> 0] @@ compress_entry(h, num_bits)
  /\ UNCHANGED <<agent, held, snap, last_id, ebc, seen>>

\* the test of the loop, and its body or the return
CompressPass ==
  /\ op.name = "compress" /\ op.pc = "loop"
  /\ op' = IF op.h # Zero32
           THEN compress_body(op.h, op.result, op.args[2]) @@
                [op EXCEPT !.passes = @ + 1]
           ELSE [op EXCEPT !.pc = "done"]
  /\ UNCHANGED <<agent, held, snap, last_id, ebc, seen>>

NextCompress ==
  \/ \E h \in HashWords, num_bits \in NumBits : CompressCall(h, num_bits)
  \/ CompressPass

InitCompress == InitWith({init_symbol_tables(FALSE, Zero32)})

SpecCompress == InitCompress /\ [][NextCompress]_vars

\* a call that has begun runs on: nothing else runs in the agent
SpecCompressFair == SpecCompress /\ WF_vars(CompressPass)

(***************************************************************************)
(* The hash ids of new symbols, in a young agent and in one whose counter  *)
(* is about to pass 2^32.                                                  *)
(***************************************************************************)
\* current_symbol_hash_id in a new agent, and after 31,350,125 creations:
\* 137 * 31,350,125 = 4,294,967,125 = 2^32 - 171, written as the int32 with the
\* same bits
HashIdStarts == {0, -171}

\* a < b on uint32_t, for values written as int32
Lt32(a, b) == IF (a < 0) = (b < 0) THEN a < b ELSE b < 0

NextHashId ==
  \/ \E name \in VariableNames : MakeVariable(name)
  \/ \E name \in SymConstantNames : MakeSymConstant(name)
  \/ \E value \in IntValues : MakeIntConstant(value)
  \/ \E l \in LevelInputs : MakeNewIdentifier(115, l, NIL)
  \/ \E sym \in Live(agent) : SymbolRemoveRef(sym)

\* every symbol made before has been released
InitHashId ==
  InitWith({[init_symbol_tables(FALSE, Zero32) EXCEPT !.current_symbol_hash_id = c] :
              c \in HashIdStarts})

SpecHashId == InitHashId /\ [][NextHashId]_vars

(***************************************************************************)
(* generate_new_sym_constant pass by pass (symtab.cpp 724-736), among      *)
(* callers that intern and release names of their own: short prefixes and  *)
(* a prefix that fills the buffer, counters at the start and at the top of *)
(* uint64_t.                                                               *)
(***************************************************************************)
\* passes of the loop the model follows
MaxPasses == 4

\* no call of generate_new_sym_constant is under way
NoGenRunning ==
  IF op.name = "generate_new_sym_constant" THEN op.pc = "done" ELSE TRUE

GenMakeSymConstant(name) == NoGenRunning /\ MakeSymConstant(name)

GenSymbolRemoveRef(sym) == NoGenRunning /\ SymbolRemoveRef(sym)

\* the names in the symbolic-constant table
InternedNames(ag) ==
  LET items == all_items(ag.tables[SYM_CONSTANT_SYMBOL_TYPE])
  IN {ag.symbols[items[i]].name : i \in 1 .. Len(items)}

\* generate_new_sym_constant(thisAgent, prefix, &counter) is called
GenerateCall(prefix, counter) ==
  /\ NoGenRunning
  /\ agent.current_symbol_hash_id <= HashIdStep * MaxAlloc
  /\ op' = [name |-> "generate_new_sym_constant", args |-> <<prefix, counter>>,
            pc |-> "loop", counter |-> counter, passes |-> 0, ret |-> NIL,
            interned |-> InternedNames(agent)]
  /\ snap' = NoSnap
  /\ UNCHANGED <<agent, held, last_id, ebc, seen>>

\* one pass of the loop: the name is written with (*counter)++ and looked up;
\* the loop goes on if it is found, else the symbol is made and returned
GeneratePass ==
  LET name == buffer_name(op.args[1], op.counter)
      New == make_sym_constant(agent, name)
  IN /\ op.name = "generate_new_sym_constant" /\ op.pc = "loop"
     /\ op.passes < MaxPasses
     /\ IF find_sym_constant(agent, name).ret # NIL
        THEN /\ op' = [op EXCEPT !.counter = Inc64(@), !.passes = @ + 1]
             /\ UNCHANGED <<agent, held>>
        ELSE /\ op' = [op EXCEPT !.counter = Inc64(@), !.passes = @ + 1,
                                 !.pc = "done", !.ret = New.ret]
             /\ agent' = New.ag
             /\ held' = HeldPlus(New.ret)
     /\ UNCHANGED <<snap, last_id, ebc, seen>>

NextGenerate ==
  \/ \E name \in GenNames : GenMakeSymConstant(name)
  \/ \E sym \in Live(agent) : GenSymbolRemoveRef(sym)
  \/ \E prefix \in GenPrefixes, counter \in GenStarts : GenerateCall(prefix, counter)
  \/ GeneratePass

InitGenerate == InitWith({init_symbol_tables(FALSE, Zero32)})

SpecGenerate == InitGenerate /\ [][NextGenerate]_vars

(***************************************************************************)
(* Properties.                                                             *)
(***************************************************************************)
\* the symbols in the table of a kind
Items(ag, type) ==
  {all_items(ag.tables[type])[i] : i \in 1 .. Len(all_items(ag.tables[type]))}

\* the identity key of a symbol, as the argument list of its find_xxx
KeyOf(ag, sym) ==
  CASE ag.symbols[sym].symbol_type \in {VARIABLE_SYMBOL_TYPE, SYM_CONSTANT_SYMBOL_TYPE}
         -> <<ag.symbols[sym].name>>
    [] ag.symbols[sym].symbol_type = IDENTIFIER_SYMBOL_TYPE
         -> <<ag.symbols[sym].name_letter, ag.symbols[sym].name_number>>
    [] OTHER -> <<ag.symbols[sym].value>>

\* the symbols of a kind whose key is `key'
WithKey(ag, type, key) == {sym \in Items(ag, type) : KeyOf(ag, sym) = key}

InternedTypes ==
  {VARIABLE_SYMBOL_TYPE, SYM_CONSTANT_SYMBOL_TYPE, INT_CONSTANT_SYMBOL_TYPE}

MadeType(name) ==
  CASE name = "make_variable" -> VARIABLE_SYMBOL_TYPE
    [] name = "make_sym_constant" -> SYM_CONSTANT_SYMBOL_TYPE
    [] name = "make_int_constant" -> INT_CONSTANT_SYMBOL_TYPE
    [] name = "make_float_constant" -> FLOAT_CONSTANT_SYMBOL_TYPE
    [] name = "make_new_identifier" -> IDENTIFIER_SYMBOL_TYPE

FoundType(name) ==
  CASE name = "find_variable" -> VARIABLE_SYMBOL_TYPE
    [] name = "find_sym_constant" -> SYM_CONSTANT_SYMBOL_TYPE
    [] name = "find_int_constant" -> INT_CONSTANT_SYMBOL_TYPE
    [] name = "find_float_constant" -> FLOAT_CONSTANT_SYMBOL_TYPE
    [] name = "find_identifier" -> IDENTIFIER_SYMBOL_TYPE

InternNames == {"make_variable", "make_sym_constant", "make_int_constant"}

FindNames == {"find_variable", "find_identifier", "find_sym_constant",
              "find_int_constant", "find_float_constant"}

\* each chain entry of a table is a live symbol of the table's kind, entered once
OneEntryPerKey(type) ==
  /\ \A a, b \in Items(agent, type) : KeyOf(agent, a) = KeyOf(agent, b) => a = b
  /\ Len(all_items(agent.tables[type])) = Cardinality(Items(agent, type))
  /\ agent.tables[type].count = Cardinality(Items(agent, type))

\* a call that interns a key that is live returns the live symbol, adds one to
\* its refcount and leaves the table as it was
InternOfLiveKey ==
  (op'.name \in InternNames /\ WithKey(agent, MadeType(op'.name), op'.args) # {})
    => /\ op'.ret \in WithKey(agent, MadeType(op'.name), op'.args)
       /\ agent'.symbols[op'.ret].reference_count =
            agent.symbols[op'.ret].reference_count + 1
       /\ agent'.tables = agent.tables

\* C1: after any calls of make_variable, make_sym_constant and make_int_constant
\* and any releases, each of the three tables holds at most one live symbol per
\* name (or integer value), and interning a live key returns the existing symbol
\* with its refcount raised by one and adds no table entry.
C1_OneSymbolPerKey ==
  /\ [](\A type \in InternedTypes : OneEntryPerKey(type))
  /\ [][InternOfLiveKey]_vars

\* a key was interned while live: its symbol now has two references
C1_Witness ==
  /\ op.name \in InternNames
  /\ op.ret \in Live(agent)
  /\ agent.symbols[op.ret].reference_count = 2
  /\ agent.tables[MadeType(op.name)].count = 2

\* what find_xxx yields in ag for the key of a symbol of the given kind
FindByKey(ag, type, key) ==
  CASE type = VARIABLE_SYMBOL_TYPE -> find_variable(ag, key[1]).ret
    [] type = SYM_CONSTANT_SYMBOL_TYPE -> find_sym_constant(ag, key[1]).ret
    [] type = INT_CONSTANT_SYMBOL_TYPE -> find_int_constant(ag, key[1]).ret
    [] type = FLOAT_CONSTANT_SYMBOL_TYPE -> find_float_constant(ag, key[1]).ret
    [] type = IDENTIFIER_SYMBOL_TYPE -> find_identifier(ag, key[1], key[2]).ret

\* a live symbol counts the references its callers hold and is found by its key
CountedAndFindable ==
  /\ DOMAIN held \subseteq Live(agent)
  /\ \A sym \in Live(agent) :
       /\ agent.symbols[sym].reference_count = HeldCount(sym)
       /\ agent.symbols[sym].reference_count >= 1
       /\ FindByKey(agent, agent.symbols[sym].symbol_type, KeyOf(agent, sym)) = sym

\* the release of the last reference removes the symbol: its key is not found
LastReleaseRemoves ==
  (op'.name = "symbol_remove_ref" /\ agent.symbols[op'.args[1]].reference_count = 1)
    => /\ op'.args[1] \notin Live(agent')
       /\ FindByKey(agent', agent.symbols[op'.args[1]].symbol_type,
                    KeyOf(agent, op'.args[1])) = NIL

\* C3: the refcount of every symbol is the number of make_xxx and add_ref calls
\* that returned it less the number of releases; a symbol stays in its table and
\* is found by find_xxx while that is at least 1, and when it reaches zero the
\* symbol is removed and find_xxx returns NIL for its key.
C3_RefcountAndFind ==
  /\ []CountedAndFindable
  /\ [][LastReleaseRemoves]_vars

\* C4: find_variable, find_identifier, find_sym_constant, find_int_constant and
\* find_float_constant change no refcount, no table, no id counter and not
\* current_symbol_hash_id, and return NIL when no live symbol has the key.
C4_FindChangesNothing ==
  [][op'.name \in FindNames
       => /\ agent' = agent
          /\ (WithKey(agent, FoundType(op'.name), op'.args) = {} => op'.ret = NIL)
    ]_vars

\* a lookup of a key that is not live returned NIL while its table was not empty
C4_Witness ==
  /\ op.name \in FindNames
  /\ op.ret = NIL
  /\ WithKey(agent, FoundType(op.name), op.args) = {}
  /\ Items(agent, FoundType(op.name)) # {}

\* the symbols in each table
TableContents(ag) == [type \in SymbolTypes |-> Items(ag, type)]

\* C5 as stated: interning a name or integer and releasing the returned
\* reference once leaves the interner exactly as before the interning:
\* refcounts, table contents, pool free lists and everything else, whether or
\* not the key was live.
C5_InternReleaseRestoresAll ==
  snap.phase = "released" => agent = snap.pre

\* C5: interning a name or integer and releasing the returned reference once
\* leaves the symbols with their refcounts, the contents of every table and the
\* id counters as before.  When the key was live nothing at all differs.  When it
\* was not, current_symbol_hash_id is 137 higher, and the free list of a pool is
\* as before if it was not empty (an empty pool has grown by a block, which is
\* now its free list).
C5_InternReleaseRestores ==
  snap.phase = "released"
    => /\ agent.symbols = snap.pre.symbols
       /\ TableContents(agent) = TableContents(snap.pre)
       /\ agent.id_counter = snap.pre.id_counter
       /\ IF snap.key_live
          THEN agent = snap.pre
          ELSE /\ agent.current_symbol_hash_id =
                    get_next_symbol_hash_id(snap.pre).ret
               /\ \A type \in SymbolTypes :
                    IF snap.pre.pools[type] # <<>>
                    THEN agent.pools[type] = snap.pre.pools[type]
                    ELSE Len(agent.pools[type]) \in {0, ItemsPerBlock}

\* a key that was not live was interned and released, out of a pool that had a
\* free item
C5_Witness ==
  /\ snap.phase = "released"
  /\ ~snap.key_live
  /\ \E type \in InternedTypes :
       /\ snap.pre.pools[type] # <<>>
       /\ agent.pools[type] = snap.pre.pools[type]
       /\ snap.sym = Head(agent.pools[type])

\* C2: after any make_new_identifier calls, with the number omitted or
\* supplied, and any releases, no two live identifiers in the identifier table
\* have the same letter and number.
C2_OneIdentifierPerLetterNumber ==
  \A a, b \in Items(agent, IDENTIFIER_SYMBOL_TYPE) :
    (/\ agent.symbols[a].name_letter = agent.symbols[b].name_letter
     /\ agent.symbols[a].name_number = agent.symbols[b].name_number) => a = b

\* the letter slot and the number of the identifier a make_new_identifier step makes
MadeLetter == letter_index(agent'.symbols[op'.ret].name_letter)

MadeNumber == agent'.symbols[op'.ret].name_number

\* post is the uint64_t one above pre: pre + 1 without wrapping to 0
OneHigher(post, pre) == post = Inc64(pre) /\ post # 0

Max64(a, b) == IF Geq64(a, b) THEN a ELSE b

\* C6: make_new_identifier with the number omitted returns an identifier whose
\* number is the counter of its letter before the call and leaves that counter
\* exactly one higher, the counters of the other letters unchanged.
C6_OmittedNumberTakesCounter ==
  [][(op'.name = "make_new_identifier" /\ op'.args[3] = NIL)
       => /\ MadeNumber = agent.id_counter[MadeLetter]
          /\ OneHigher(agent'.id_counter[MadeLetter], agent.id_counter[MadeLetter])
          /\ \A i \in 0 .. 25 :
               i # MadeLetter => agent'.id_counter[i] = agent.id_counter[i]
    ]_vars

\* C7: make_new_identifier with a number n supplied returns an identifier
\* numbered n and leaves the counter of its letter at max(previous counter,
\* n + 1), hence at least n + 1, for every uint64_t n that can be supplied.
C7_SuppliedNumberForcesCounter ==
  [][(op'.name = "make_new_identifier" /\ op'.args[3] # NIL)
       => /\ MadeNumber = op'.args[3]
          /\ OneHigher(Inc64(op'.args[3]), op'.args[3])
          /\ agent'.id_counter[MadeLetter] =
               Max64(agent.id_counter[MadeLetter], Inc64(op'.args[3]))
    ]_vars

\* C8 as stated: between two successful resets each identifier made for a letter
\* has a number exactly one greater than the identifier made before it for that
\* letter, whether its number was omitted or supplied.
C8_NumbersDense ==
  [][(op'.name = "make_new_identifier" /\ last_id[MadeLetter].made)
       => OneHigher(MadeNumber, last_id[MadeLetter].number)
    ]_vars

\* C8: between two successful resets, an identifier made with the number omitted
\* has the number one greater, modulo 2^64, than the identifier made before it
\* for that letter, provided that one was made with the number omitted or with a
\* supplied number not below the counter; an identifier made with a number
\* supplied has that number, whatever was made before it.
C8_OmittedNumbersFollow ==
  [][op'.name = "make_new_identifier"
       => IF op'.args[3] # NIL
          THEN MadeNumber = op'.args[3]
          ELSE (last_id[MadeLetter].made /\ last_id[MadeLetter].in_step)
                 => MadeNumber = Inc64(last_id[MadeLetter].number)
    ]_vars

\* an identifier with the number omitted was made after one that left the
\* counter one past its own number
C8_Witness ==
  /\ op.name = "make_new_identifier"
  /\ op.args[3] = NIL
  /\ last_id[letter_index(agent.symbols[op.ret].name_letter)].follows
  /\ agent.symbols[op.ret].name_number > 2

\* C9: reset_id_counters returns failure exactly when the identifier table holds
\* an identifier that is not long-term; on failure the 26 counters and the
\* identifier table are as before.
C9_ResetRefusal ==
  [][op'.name = "reset_id_counters"
       => /\ op'.ret = FALSE <=>
               \E sym \in Items(agent, IDENTIFIER_SYMBOL_TYPE) :
                 agent.symbols[sym].smem_lti = NIL
          /\ op'.ret = FALSE
               => /\ agent'.id_counter = agent.id_counter
                  /\ agent'.tables[IDENTIFIER_SYMBOL_TYPE] =
                       agent.tables[IDENTIFIER_SYMBOL_TYPE]
                  /\ agent'.symbols = agent.symbols
    ]_vars

\* a reset was refused with a long-term and a short-term identifier in the table
C9_Witness ==
  /\ op.name = "reset_id_counters"
  /\ ~op.ret
  /\ \E a, b \in Items(agent, IDENTIFIER_SYMBOL_TYPE) :
       agent.symbols[a].smem_lti # NIL /\ agent.symbols[b].smem_lti = NIL
  /\ \E i \in 0 .. 25 : agent.id_counter[i] # 1

\* C10: whenever reset_id_counters returns success, the counter of each of the
\* 26 letters is 1 immediately after the call.
C10_ResetSetsCountersToOne ==
  (op.name = "reset_id_counters" /\ op.ret)
    => \A i \in 0 .. 25 : agent.id_counter[i] = 1

\* a reset succeeded while a long-term identifier was in the table
C10_Witness ==
  /\ op.name = "reset_id_counters"
  /\ op.ret
  /\ Items(agent, IDENTIFIER_SYMBOL_TYPE) # {}
  /\ \A i \in 0 .. 25 : agent.id_counter[i] = 1

\* the identifiers of the table that a line of the file describes, `at' being
\* the text before the letter that marks a long-term identifier
Described(line, at) ==
  {sym \in Items(agent, IDENTIFIER_SYMBOL_TYPE) :
     /\ agent.symbols[sym].name_letter = line.letter
     /\ agent.symbols[sym].name_number = line.number
     /\ agent.symbols[sym].reference_count = line.refcount
     /\ line.before = at <=> agent.symbols[sym].smem_lti # NIL}

\* leaked-ids.txt has as many lines as the table has identifiers, and as many
\* lines with a letter, number, refcount and mark as there are such identifiers
OneLinePerIdentifier(at) ==
  /\ Len(op.file) = Cardinality(Items(agent, IDENTIFIER_SYMBOL_TYPE))
  /\ \A i \in 1 .. Len(op.file) :
       Cardinality({j \in 1 .. Len(op.file) :
                      /\ op.file[j].letter = op.file[i].letter
                      /\ op.file[j].number = op.file[i].number
                      /\ op.file[j].refcount = op.file[i].refcount
                      /\ op.file[j].before = at <=> op.file[i].before = at})
         = Cardinality(Described(op.file[i], at))

\* C11 as stated: on a refused reset_id_counters, leaked-ids.txt has exactly one
\* line per identifier in the table, with its letter, number and refcount, the
\* line starting with '@' if and only if the identifier is long-term; with
\* exactly one identifier that is not long-term live the file has one line.
C11_LeakFileLines ==
  (op.name = "reset_id_counters" /\ ~op.ret)
    => /\ OneLinePerIdentifier("@")
       /\ \A i \in 1 .. Len(op.file) : op.file[i].before \in {"@", ""}
       /\ Cardinality({sym \in Items(agent, IDENTIFIER_SYMBOL_TYPE) :
                         agent.symbols[sym].smem_lti = NIL}) = 1
            => Len(op.file) = 1

\* C11: on a refused reset_id_counters, leaked-ids.txt has exactly one line per
\* identifier in the table, long-term or not: a tab, then '@' if and only if the
\* identifier is long-term, then its letter and number, " --> ", and its
\* refcount; the file has exactly one line when exactly one identifier is in
\* the table.
C11_LeakFileTabbedLines ==
  (op.name = "reset_id_counters" /\ ~op.ret)
    => /\ OneLinePerIdentifier("\t@")
       /\ \A i \in 1 .. Len(op.file) :
            /\ op.file[i].before \in {"\t@", "\t"}
            /\ op.file[i].between = " --> "
            /\ op.file[i].after = "\n"
       /\ Cardinality(Items(agent, IDENTIFIER_SYMBOL_TYPE)) = 1
            => Len(op.file) = 1

\* a reset was refused and wrote a line with '@' and a line without
C11_Witness ==
  /\ op.name = "reset_id_counters"
  /\ ~op.ret
  /\ Len(op.file) = 2
  /\ \E i, j \in 1 .. 2 : op.file[i].before = "\t@" /\ op.file[j].before = "\t"

\* the instantiation of a set_learning_for_instantiation step
GateInst == op'.args[2]

\* C12: set_learning_for_instantiation returns ineligible for every
\* instantiation whose match goal level is the top goal level, and for every
\* instantiation when learning is off, whatever the except, only and bottom-only
\* settings and the state flags are.
C12_TopLevelOrOffIneligible ==
  [][(/\ op'.name = "set_learning_for_instantiation"
      /\ \/ ~ebc.ebc_settings["SETTING_EBC_LEARNING_ON"]
         \/ GateInst.match_goal_level = TOP_GOAL_LEVEL)
       => ~op'.ret
    ]_vars

\* a match at the top level was refused with learning on, the only mode on and
\* the top state flagged for learning
C12_Witness ==
  /\ op.name = "set_learning_for_instantiation"
  /\ op.args[2].match_goal_level = TOP_GOAL_LEVEL
  /\ ~op.ret
  /\ ebc.ebc_settings["SETTING_EBC_LEARNING_ON"]
  /\ ebc.ebc_settings["SETTING_EBC_ONLY"]
  /\ ~ebc.ebc_settings["SETTING_EBC_EXCEPT"]
  /\ member_of_list("S1", ebc.chunky_problem_spaces)
  /\ op.args[2].match_goal.allow_bottom_up_chunks

\* C13: set_learning_for_instantiation returns eligible if and only if learning
\* is on, the match goal level is not the top level, not (except on and the
\* match goal flagged chunk-free), not (only on and the match goal not flagged
\* chunky) and not (bottom-only on and allow_bottom_up_chunks false).
C13_EligibleIff ==
  [][op'.name = "set_learning_for_instantiation"
       => (op'.ret <=>
             /\ ebc.ebc_settings["SETTING_EBC_LEARNING_ON"]
             /\ GateInst.match_goal_level # TOP_GOAL_LEVEL
             /\ ~(/\ ebc.ebc_settings["SETTING_EBC_EXCEPT"]
                  /\ \E i \in 1 .. Len(ebc.chunk_free_problem_spaces) :
                       ebc.chunk_free_problem_spaces[i] = GateInst.match_goal.name)
             /\ ~(/\ ebc.ebc_settings["SETTING_EBC_ONLY"]
                  /\ \A i \in 1 .. Len(ebc.chunky_problem_spaces) :
                       ebc.chunky_problem_spaces[i] # GateInst.match_goal.name)
             /\ ~(/\ ebc.ebc_settings["SETTING_EBC_BOTTOM_ONLY"]
                  /\ ~GateInst.match_goal.allow_bottom_up_chunks))
    ]_vars

\* a match was found eligible with all three modes on
C13_Witness ==
  /\ op.name = "set_learning_for_instantiation"
  /\ op.ret
  /\ \A setting \in EbcSettings : ebc.ebc_settings[setting]
  /\ member_of_list(op.args[2].match_goal.name, ebc.chunky_problem_spaces)
  /\ member_of_list("S1", ebc.chunk_free_problem_spaces)

\* a gate call answers as the remembered call with the same instantiation did
\* (the settings are fixed and the flags are as they were at that call)
SameAnswerAsBefore ==
  (/\ op'.name = "set_learning_for_instantiation"
   /\ seen.gate.made
   /\ seen.gate.inst = GateInst)
    => op'.ret = seen.gate.ret

\* C14 as stated: a call of set_learning_for_instantiation changes no field of
\* the controller, and two calls with the same settings, state flags and
\* instantiation return the same result whatever gate calls came between.
C14_GateStateless ==
  [][/\ op'.name = "set_learning_for_instantiation" => ebc' = ebc
     /\ SameAnswerAsBefore
    ]_vars

\* C14: a call of set_learning_for_instantiation changes one field of the
\* controller, m_learning_on_for_instantiation, which it sets to the value it
\* returns, and no other; two calls with the same settings, state flags and
\* instantiation return the same result whatever gate calls came between.
C14_GateKeepsOnlyItsAnswer ==
  [][/\ op'.name = "set_learning_for_instantiation"
          => /\ ebc' = [ebc EXCEPT !.m_learning_on_for_instantiation = op'.ret]
             /\ ebc'.m_learning_on_for_instantiation = op'.ret
     /\ SameAnswerAsBefore
    ]_vars

\* a call repeated the answer of a remembered call, eligible, after a call in
\* between had set m_learning_on_for_instantiation to false
C14_Witness ==
  /\ op.name = "set_learning_for_instantiation"
  /\ seen.gate.made
  /\ seen.gate.inst = op.args[2]
  /\ op.ret
  /\ seen.gate.ret
  /\ seen.gate.refused_since
  /\ ebc.m_learning_on_for_instantiation

\* the latest call was set_up_rule_name
Named == op.name = "set_up_rule_name"

\* the name of the symbol that call returned
GivenName == agent.symbols[op.ret].name

\* the prefix of the kind of rule that call named
GivenPrefix ==
  IF op.args[1] = "ebc_chunk" THEN ebc.chunk_name_prefix
  ELSE ebc.justification_name_prefix

\* the first number at or after n that, put after prefix, makes a name not in
\* interned
RECURSIVE FirstFree(_, _, _)
FirstFree(prefix, n, interned) ==
  IF prefix \o to_string(n) \in interned THEN FirstFree(prefix, n + 1, interned)
  ELSE n

\* C15: in numbered naming style the name given is the kind's prefix followed by
\* the value the kind's naming counter had at the call, or by the first later
\* value whose name was not interned
C15_NumberedNameFromCounter ==
  (Named /\ ebc.naming_style = "numberedFormat")
    => GivenName = GivenPrefix \o
                     to_string(FirstFree(GivenPrefix, op.before.counter,
                                         op.before.interned))

\* the instantiation that call was made for
NamedInst == op.args[2]

\* the naming style is the descriptive one
Descriptive == ebc.naming_style = "ruleFormat"

LearningOn == ebc.ebc_settings["SETTING_EBC_LEARNING_ON"]

StartsWith(name, start) ==
  Len(name) >= Len(start) /\ SubSeq(name, 1, Len(start)) = start

EndsWith(name, end) ==
  Len(name) >= Len(end) /\ SubSeq(name, Len(name) - Len(end) + 1, Len(name)) = end

\* no segment of a rule that matched follows the prefix
SegmentOmitted ==
  /\ ~StartsWith(op.composed, GivenPrefix \o "x")
  /\ ~StartsWith(op.composed, GivenPrefix \o "*" \o NamedInst.prod_name)

\* C16 as the specification has it: in descriptive style the name composed for an
\* instantiation of a rule starts with the prefix, x, the depth (the
\* instantiation's depth plus one, which is always above 0) and * and the name
\* of the rule; for an instantiation of no rule the segment is left out
C16_DepthWrittenWhenPositive ==
  (Named /\ Descriptive)
    => IF NamedInst.prod # NULL
       THEN StartsWith(op.composed,
                       GivenPrefix \o "x" \o to_string(NamedInst.prod_naming_depth + 1)
                         \o "*" \o NamedInst.prod[1].original_rule_name)
       ELSE SegmentOmitted

\* C16, amended: in descriptive style with learning on, the name composed for an
\* instantiation of a rule starts with the prefix, then x and the depth (the
\* instantiation's depth plus one) if the instantiation's own depth is above 0,
\* then * and the name of the rule; for an instantiation of no rule the segment
\* is left out
C16_DepthWrittenForLearnedParent ==
  (Named /\ Descriptive /\ LearningOn)
    => IF NamedInst.prod # NULL
       THEN StartsWith(op.composed,
                       GivenPrefix
                         \o (IF NamedInst.prod_naming_depth > 0
                             THEN "x" \o to_string(NamedInst.prod_naming_depth + 1)
                             ELSE "")
                         \o "*" \o NamedInst.prod[1].original_rule_name)
       ELSE SegmentOmitted

\* a chunk learned from a match of a learned rule got a name with the depth
C16_Witness ==
  /\ Named /\ Descriptive /\ LearningOn
  /\ NamedInst.prod # NULL
  /\ NamedInst.prod_naming_depth = 1
  /\ StartsWith(GivenName, "chunkx2*mv*Tie*t")

\* *t, the count of initialisations plus one and - if there was an
\* initialisation, the decision cycle, -, and the tally of the kind's rules of
\* this decision cycle, the rule named by the latest call included
TimeEnding ==
  "*t"
  \o (IF ebc.thisAgent.init_count >= 1
      THEN to_string(ebc.thisAgent.init_count + 1) \o "-" ELSE "")
  \o to_string(ebc.thisAgent.d_cycle_count) \o "-"
  \o to_string(rule_number(ebc))

\* C17 as the specification has it: in descriptive style the composed name ends
\* with *t[init_count+1-]d_cycle_count-seq
C17_NameEndsWithTime ==
  (Named /\ Descriptive) => EndsWith(op.composed, TimeEnding)

\* C17, amended: in descriptive style with learning on the composed name ends
\* with *t[init_count+1-]d_cycle_count-seq, init_count+1- being there if and
\* only if init_count is at least 1, and seq being the kind's tally after
\* set_up_rule_name incremented it
C17_NameEndsWithTimeWhenLearning ==
  (Named /\ Descriptive /\ LearningOn) => EndsWith(op.composed, TimeEnding)

\* after an initialisation, the second justification of decision cycle 1
C17_Witness ==
  /\ Named /\ Descriptive /\ LearningOn
  /\ op.args[1] = "ebc_justification"
  /\ ebc.thisAgent.init_count = 1
  /\ ebc.justifications_this_d_cycle = 2
  /\ EndsWith(GivenName, "*t2-1-2")

\* the suffix the specification gives for the impasse type of the goal above
\* the match goal of the instantiation
SuffixOfParentGoal ==
  LET impasse_type == NamedInst.match_goal.higher_goal_impasse_type
  IN CASE impasse_type = "CONSTRAINT_FAILURE_IMPASSE_TYPE" -> "*Failure"
       [] impasse_type = "CONFLICT_IMPASSE_TYPE" -> "*Conflict"
       [] impasse_type = "TIE_IMPASSE_TYPE" -> "*Tie"
       [] impasse_type = "ONC_IMPASSE_TYPE" -> "*OpNoChange"
       [] impasse_type = "SNC_IMPASSE_TYPE" -> "*StateNoChange"
       [] OTHER -> ""

\* the composed name is the prefix, the segment of the rule that matched (none
\* for an instantiation of no rule), the suffix of the parent goal's impasse
\* and the time, with nothing else in between
SuffixBetweenParentAndTime ==
  /\ Len(op.composed) >= Len(GivenPrefix) + Len(SuffixOfParentGoal) + Len(TimeEnding)
  /\ StartsWith(op.composed, GivenPrefix)
  /\ EndsWith(op.composed, SuffixOfParentGoal \o TimeEnding)
  /\ LET parent == SubSeq(op.composed, Len(GivenPrefix) + 1,
                          Len(op.composed) - Len(SuffixOfParentGoal) - Len(TimeEnding))
     IN IF NamedInst.prod = NULL THEN parent = ""
        ELSE EndsWith(parent, "*" \o NamedInst.prod[1].original_rule_name)

\* C18 as the specification has it: in descriptive style the suffix of the
\* parent goal's impasse type, one of the six, stands between the segment of the
\* parent rule and *t
C18_ImpasseSuffix ==
  (Named /\ Descriptive) => SuffixBetweenParentAndTime

\* C18, amended: in descriptive style with learning on the suffix of the parent
\* goal's impasse type, one of the six, stands between the segment of the
\* parent rule and *t
C18_ImpasseSuffixWhenLearning ==
  (Named /\ Descriptive /\ LearningOn) => SuffixBetweenParentAndTime

\* chunks learned under a state no-change and under an impasse of no type
C18_Witness ==
  /\ Named /\ Descriptive /\ LearningOn
  /\ \/ /\ NamedInst.match_goal.higher_goal_impasse_type = "SNC_IMPASSE_TYPE"
        /\ GivenName = "chunk*mv*StateNoChange*t1-1"
     \/ /\ NamedInst.match_goal.higher_goal_impasse_type = "NONE_IMPASSE_TYPE"
        /\ GivenName = "chunk*mv*t1-1"

\* the name given is the composed one if that was not interned, and else the
\* composed one followed by the smallest number from 2 on that makes a name not
\* interned
CandidateOrSuffixed ==
  IF op.composed \in op.before.interned
  THEN GivenName = op.composed
                     \o to_string(FirstFree(op.composed, 2, op.before.interned))
  ELSE GivenName = op.composed

\* C19 as the specification has it: in descriptive style the name returned is
\* the candidate, or the candidate and the smallest k >= 2 for which that name
\* is not interned if the candidate is interned
C19_SuffixFromTwo ==
  (Named /\ Descriptive) => CandidateOrSuffixed

\* C19, amended: in descriptive style with learning on, the name returned is
\* the candidate, or the candidate and the smallest k >= 2 for which that name
\* is not interned if the candidate is interned
C19_SuffixFromTwoWhenLearning ==
  (Named /\ Descriptive /\ LearningOn) => CandidateOrSuffixed

\* the candidate and the candidate with 2 were interned: the name ends with 3
C19_Witness ==
  /\ Named /\ Descriptive /\ LearningOn
  /\ op.composed = "chunk*mv*Tie*t1-1"
  /\ {op.composed, op.composed \o "2"} \subseteq op.before.interned
  /\ GivenName = "chunk*mv*Tie*t1-13"

\* C20 as the specification has it: in a run, with decision cycles, reinit and
\* releases of rule names, no rule is given a name that an earlier rule was given
C20_NamesNeverRepeat == ~seen.repeated

\* C20, amended: no rule is given a name that is interned when it is named, so
\* no two rules whose names are interned at the same time have the same name
C20_NameNotInternedWhenGiven ==
  Named => /\ GivenName \notin op.before.interned
           /\ \A sym \in Live(agent) :
                (agent.symbols[sym].symbol_type = SYM_CONSTANT_SYMBOL_TYPE
                   /\ agent.symbols[sym].name = GivenName) => sym = op.ret

\* a rule got the name that an earlier rule, since excised, had been given
C20_Witness ==
  /\ Named
  /\ seen.repeated
  /\ GivenName \notin op.before.interned

\* ---- C21 ----
\* the symbol entry i of PredefinedSymbols names is where its agent field
\* points: live, of the entry's kind and name, counted and found by its name
PredefinedHeld(ag, i) ==
  LET entry == PredefinedSymbols[i]
      sym == ag.predefined[entry.field]
  IN /\ sym # NIL
     /\ sym \in Live(ag)
     /\ ag.symbols[sym].name = entry.name
     /\ ag.symbols[sym].reference_count >= 1
     /\ IF entry.make = "make_variable"
        THEN /\ ag.symbols[sym].symbol_type = VARIABLE_SYMBOL_TYPE
             /\ find_variable(ag, entry.name).ret = sym
        ELSE /\ ag.symbols[sym].symbol_type = SYM_CONSTANT_SYMBOL_TYPE
             /\ find_sym_constant(ag, entry.name).ret = sym

PredefinedKept ==
  Created(agent) /\ ~Released(agent)
    => \A i \in DOMAIN PredefinedSymbols : PredefinedHeld(agent, i)

\* a step of a created agent changes the agent's pointers only if it is
\* release_predefined_symbols, which leaves every one of them NIL
OnlyReleaseDrops ==
  Created(agent) =>
    IF op'.name = "release_predefined_symbols"
    THEN \A f \in PredefinedFields : agent'.predefined[f] = NIL
    ELSE agent'.predefined = agent.predefined

\* C21: from create_predefined_symbols until release_predefined_symbols every
\* predefined symbol stays findable by its name with a refcount of at least 1,
\* whatever other callers intern and release of what they obtained; only
\* release_predefined_symbols changes the agent's pointers, and it sets each
\* of them to NIL.
C21_PredefinedStayUntilReleased == [] PredefinedKept /\ [][OnlyReleaseDrops]_vars

\* a caller has released its reference to the predefined symbol "state", and
\* the agent still has its symbols
C21_Witness ==
  /\ Created(agent) /\ ~Released(agent)
  /\ op.name = "symbol_remove_ref"
  /\ op.args = <<agent.predefined["state_symbol"]>>
  /\ HeldCount(agent.predefined["state_symbol"]) = 0

\* the agent has released its symbols: every pointer is NIL
C21_WitnessReleased ==
  /\ op.name = "release_predefined_symbols"
  /\ Released(agent)

\* ---- C22 ----
SweptKinds == {IDENTIFIER_SYMBOL_TYPE, VARIABLE_SYMBOL_TYPE}

TcSwept == op.name = "reset_id_and_variable_tc_numbers"

GensymSwept == op.name = "reset_variable_gensym_numbers"

LiveOfKinds(ag, kinds) == {sym \in Live(ag) : ag.symbols[sym].symbol_type \in kinds}

GensymCleared ==
  GensymSwept =>
    \A sym \in LiveOfKinds(agent, {VARIABLE_SYMBOL_TYPE}) :
      agent.symbols[sym].gensym_number = 0

\* C22 (as stated): after reset_id_and_variable_tc_numbers every live symbol of
\* every one of the five kinds has tc_num 0, and after
\* reset_variable_gensym_numbers every live variable has gensym_number 0.
C22_SweepClearsAllKinds ==
  /\ TcSwept => \A sym \in Live(agent) : agent.symbols[sym].tc_num = 0
  /\ GensymCleared

\* C22 (amended): after reset_id_and_variable_tc_numbers every live identifier
\* and every live variable has tc_num 0, and a symbolic, integer or float
\* constant has the tc_num it had before; after reset_variable_gensym_numbers
\* every live variable has gensym_number 0.
C22_SweepClearsIdsAndVariables ==
  /\ TcSwept =>
       /\ \A sym \in LiveOfKinds(agent, SweptKinds) : agent.symbols[sym].tc_num = 0
       /\ \A sym \in LiveOfKinds(agent, SymbolTypes \ SweptKinds) :
            agent.symbols[sym].tc_num = snap.pre.symbols[sym].tc_num
  /\ GensymCleared

\* the sweep has cleared the mark of an identifier or a variable and has left
\* the mark of a constant
C22_Witness ==
  /\ TcSwept
  /\ \E sym \in LiveOfKinds(agent, SweptKinds) : snap.pre.symbols[sym].tc_num # 0
  /\ \E sym \in LiveOfKinds(agent, SymbolTypes \ SweptKinds) :
       agent.symbols[sym].tc_num # 0

\* the gensym sweep has cleared the number of a variable
C22_WitnessGensym ==
  /\ GensymSwept
  /\ \E sym \in LiveOfKinds(agent, {VARIABLE_SYMBOL_TYPE}) :
       snap.pre.symbols[sym].gensym_number # 0

\* ---- C23 ----
\* the agent with every tc_num put to 0
WithoutTcNum(ag) ==
  [ag EXCEPT !.symbols = [sym \in DOMAIN @ |-> [@[sym] EXCEPT !.tc_num = 0]]]

SweepIdempotentAndNarrow ==
  op'.name = "reset_id_and_variable_tc_numbers" =>
    /\ reset_id_and_variable_tc_numbers(agent') = agent'
    /\ WithoutTcNum(agent') = WithoutTcNum(agent)
    /\ held' = held

\* C23: reset_id_and_variable_tc_numbers run on the agent it has just swept
\* leaves that agent as it is, and a sweep changes no refcount, no table, no
\* pool and no field of a symbol other than tc_num.
C23_SweepIdempotent == [][SweepIdempotentAndNarrow]_vars

\* a sweep that changed the agent: a marked variable with a gensym number
C23_Witness ==
  /\ TcSwept
  /\ snap.pre # agent
  /\ \E sym \in LiveOfKinds(agent, {VARIABLE_SYMBOL_TYPE}) :
       agent.symbols[sym].gensym_number # 0

\* ---- C24 ----
\* the counters are 0 and the state of the learning attempt is cleared
ReinitCleared(e) ==
  /\ e.inst_id_counter = 0
  /\ e.prod_id_counter = 0
  /\ e.identity_counter = 0
  /\ e.inst_identity_counter = 0
  /\ e.backtrace_number = 0
  /\ e.chunk_naming_counter = 0
  /\ e.justification_naming_counter = 0
  /\ e.m_inst = NULL
  /\ e.m_lhs = NIL
  /\ e.m_rhs = NIL
  /\ e.m_prod_name = NIL
  /\ e.m_failure_type = "ebc_success"
  /\ e.m_rule_type = "ebc_no_rule"

ReinitKeepsTimers ==
  op'.name = "reinit" =>
    /\ ReinitCleared(ebc')
    /\ ebc'.ebc_settings = ebc.ebc_settings
    /\ ebc'.ebc_timers = ebc.ebc_timers

ReinitResetsTimers ==
  op'.name = "reinit" =>
    /\ ReinitCleared(ebc')
    /\ ebc'.ebc_settings = ebc.ebc_settings
    /\ ebc'.ebc_timers = "reset"

\* C24 (as stated): after reinit the seven counters are 0, m_inst, m_lhs, m_rhs
\* and m_prod_name are null, m_failure_type is success and m_rule_type is
\* no-rule, and the settings and the timers are as they were before the call.
C24_ReinitPreservesTimers == [][ReinitKeepsTimers]_vars

\* C24 (amended): after reinit the seven counters are 0, m_inst, m_lhs, m_rhs
\* and m_prod_name are null, m_failure_type is success and m_rule_type is
\* no-rule, the settings are as they were before the call, and the timers have
\* been reset.
C24_ReinitClearsAndResetsTimers == [][ReinitResetsTimers]_vars

\* reinit after a rule was named, with the controller cleared
C24_Witness ==
  /\ op.name = "reinit"
  /\ seen.names # {}
  /\ ReinitCleared(ebc)
  /\ ebc.ebc_timers = "reset"

\* ---- C25 ----
Tallies(e) == <<e.chunks_this_d_cycle, e.justifications_this_d_cycle>>

\* the controller as set_up_rule_name hands it to generate_name_for_new_rule
\* in the step that has just been taken
CountedAttempt == rule_counted(learning_attempt(ebc, op'.args[1], op'.args[2]))

TalliesStep ==
  CASE op'.name = "set_up_rule_name" ->
         /\ Tallies(generate_name_for_new_rule(agent, CountedAttempt).ebc)
              = Tallies(CountedAttempt)
         /\ Tallies(ebc') =
              IF op'.args[1] = "ebc_chunk"
              THEN <<ebc.chunks_this_d_cycle + 1, ebc.justifications_this_d_cycle>>
              ELSE <<ebc.chunks_this_d_cycle, ebc.justifications_this_d_cycle + 1>>
    [] op'.name = "decision cycle" -> TRUE
    [] OTHER -> Tallies(ebc') = Tallies(ebc)

\* C25: reinit and generate_name_for_new_rule leave chunks_this_d_cycle and
\* justifications_this_d_cycle unchanged; set_up_rule_name adds exactly 1 to
\* the tally of the rule's kind and leaves the other; no other operation of the
\* controller changes them (the decision loop, which is not part of it, does).
C25_TalliesChangeOnlyInSetUp == [][TalliesStep]_vars

\* reinit has left a tally that is not 0
C25_Witness ==
  /\ op.name = "reinit"
  /\ ebc.chunks_this_d_cycle > 0
  /\ ebc.chunk_naming_counter = 0

\* ---- C26 ----
\* the goals from the top goal down, by their distance from it
RECURSIVE GoalsBelow(_, _)
GoalsBelow(ag, goal) ==
  IF goal = NIL THEN <<>> ELSE <<goal>> \o GoalsBelow(ag, ag.goals[goal].lower_goal)

GoalChain == GoalsBelow(agent, agent.top_goal)

GoalName(i) == "S" \o ToString(agent.goals[GoalChain[i]].name_number)

RECURSIVE Listed(_, _)
\* goals i .. n of the chain, separated by ", "
Listed(i, n) ==
  IF i = n THEN GoalName(i) ELSE GoalName(i) \o ", " \o Listed(i + 1, n)

StackPrinted == op.name = "get_state_stack_string"

\* C26: get_state_stack_string returns the number of goals from top_goal to
\* bottom_goal and appends to the string: every goal, top to bottom, separated
\* by ", ", when there are at most 4; the top two goals, " ... " and the bottom
\* two goals when there are more than 4.
C26_StackString ==
  StackPrinted =>
    LET n == Len(GoalChain)
    IN /\ op.ret = n
       /\ n = Cardinality(DOMAIN agent.goals)
       /\ GoalChain[n] = agent.bottom_goal
       /\ op.stateStackStr =
            op.args[1] \o
              IF n <= 4 THEN Listed(1, n)
              ELSE Listed(1, 2) \o " ... " \o Listed(n - 1, n)

\* a stack of exactly four goals, printed in full
C26_Witness ==
  /\ StackPrinted
  /\ op.ret = 4
  /\ op.args[1] # ""

\* a stack of more than four goals, printed with the middle left out
C26_WitnessElided ==
  /\ StackPrinted
  /\ op.ret > 5

\* ---- C27 ----
MakeNames ==
  {"make_variable", "make_sym_constant", "make_int_constant", "make_float_constant",
   "make_new_identifier"}

\* a step that allocated a symbol left its three slots NIL; a step that
\* deallocated a symbol left the refcount of every other symbol as it was
SlotsWeak ==
  /\ op'.name \in MakeNames /\ op'.ret \notin Live(agent)
       => BackReferences(agent', op'.ret) = <<NIL, NIL, NIL>>
  /\ op'.name = "deallocate_symbol"
       => /\ Live(agent') = Live(agent) \ {op'.args[1]}
          /\ \A other \in Live(agent') :
               agent'.symbols[other].reference_count
                 = agent.symbols[other].reference_count

\* C27: every make routine creates a symbol with variablized_symbol,
\* unvariablized_symbol and original_var_symbol NIL, and deallocating a symbol
\* changes the refcount of no other symbol, whatever the three slots point to.
C27_BackReferencesWeak == [][SlotsWeak]_vars

\* a symbol was deallocated whose slot pointed to another symbol, still live
C27_Witness ==
  /\ op.name = "deallocate_symbol"
  /\ \E i \in 1 .. 3 : op.slots[i] \in Live(agent)

\* ---- C28 ----
IdentifierMade == op.name = "make_new_identifier"

\* the letter stored is the one the claim gives for the character passed
LetterAsClaimed ==
  LET c == op.args[1]
  IN /\ op.letter \in 65 .. 90
     /\ c \in 97 .. 122 => op.letter = c - 32
     /\ c \in 65 .. 90 => op.letter = c
     /\ c \notin (65 .. 90) \cup (97 .. 122) => op.letter = 73
     /\ op.index \in 0 .. 25
     /\ op.ret \in Live(agent)
     /\ agent.symbols[op.ret].name_letter = op.letter

\* C28: for every character passed as the letter, make_new_identifier stores a
\* letter in 'A' .. 'Z' (a lowercase letter upper-cased, an uppercase letter
\* kept, anything else replaced by 'I'), so the index letter - 'A' used on
\* id_counter is within 0 .. 25.
C28_LetterNormalized == IdentifierMade => LetterAsClaimed

\* the same for the characters 0 .. 127 only
C28_AsciiLetterNormalized ==
  IdentifierMade /\ op.args[1] \in 0 .. 127 => LetterAsClaimed

\* ---- C29 ----
\* the call released the last reference to a record that is no symbol
NonSymbolDeallocated ==
  /\ op.name = "symbol_remove_ref"
  /\ snap.phase = "released"
  /\ snap.pre.symbols[snap.sym].reference_count = 1
  /\ snap.pre.symbols[snap.sym].symbol_type \notin SymbolTypes

\* C29: deallocate_symbol on a record whose tag is none of the five kinds ends
\* in the fatal error "Internal error: called deallocate_symbol on
\* non-symbol." (the text ends with a newline), removes nothing from any table
\* and returns nothing to any pool.
C29_NonSymbolAborts ==
  NonSymbolDeallocated =>
    /\ agent.fatal_error = "Internal error: called deallocate_symbol on non-symbol.\n"
    /\ agent.tables = snap.pre.tables
    /\ agent.pools = snap.pre.pools
    /\ Live(agent) = Live(snap.pre)

\* the error is raised only there: a symbol of one of the five kinds is
\* deallocated without it
C29_NoAbortOtherwise ==
  agent.fatal_error # "" => NonSymbolDeallocated

\* a record that is no symbol lost its last reference, with other symbols in
\* the tables
C29_Witness ==
  /\ NonSymbolDeallocated
  /\ agent.fatal_error # ""
  /\ Cardinality(Live(agent)) > 1

\* the match goal of a refused instantiation is on the list
Flagged(goal, list) == \E i \in 1 .. Len(list) : list[i] = goal.name

\* the rules that fail for instantiation inst, in the order except, only,
\* bottom-only, each with its reason
FailingReasons(e, inst) ==
  (IF e.ebc_settings["SETTING_EBC_EXCEPT"]
        /\ Flagged(inst.match_goal, e.chunk_free_problem_spaces)
   THEN <<" was flagged to prevent learning">> ELSE <<>>)
  \o
  (IF e.ebc_settings["SETTING_EBC_ONLY"]
        /\ ~Flagged(inst.match_goal, e.chunky_problem_spaces)
   THEN <<" was not flagged for learning">> ELSE <<>>)
  \o
  (IF e.ebc_settings["SETTING_EBC_BOTTOM_ONLY"]
        /\ ~inst.match_goal.allow_bottom_up_chunks
   THEN <<" is not the bottom state">> ELSE <<>>)

\* the messages a call of the gate is to emit
MessagesDue(e, trace_chunk_warnings, inst) ==
  IF \/ ~e.ebc_settings["SETTING_EBC_LEARNING_ON"]
     \/ inst.match_goal_level = TOP_GOAL_LEVEL
     \/ ~trace_chunk_warnings
     \/ FailingReasons(e, inst) = <<>>
  THEN <<>>
  ELSE <<"\nWill not attempt to learn a chunk for match of " \o inst.prod_name \o
         " because state " \o inst.match_goal.name \o FailingReasons(e, inst)[1]>>

\* C30: a call of set_learning_for_instantiation emits at most one reason
\* message, and only when it refuses with the chunk-warnings trace setting on;
\* the reason is that of the first failing rule in the order except ("flagged
\* to prevent learning"), only ("not flagged for learning"), bottom-only ("not
\* the bottom state"); a refusal because learning is off or because the match
\* is at the top level emits no message.
C30_OneReasonOfFirstFailingRule ==
  [][op'.name = "set_learning_for_instantiation"
       => /\ Len(op'.printed) <= 1
          /\ op'.printed # <<>> => (op'.args[1] /\ ~op'.ret)
          /\ op'.printed = MessagesDue(ebc, op'.args[1], GateInst)
    ]_vars

\* a match in a substate was refused with the trace setting on while the except
\* rule and the only rule both failed, and the message was that of the except rule
C30_Witness ==
  /\ op.name = "set_learning_for_instantiation"
  /\ ~op.ret
  /\ op.args[1]
  /\ op.args[2].match_goal_level # TOP_GOAL_LEVEL
  /\ Len(FailingReasons(ebc, op.args[2])) >= 2
  /\ ebc.ebc_settings["SETTING_EBC_EXCEPT"]
  /\ Flagged(op.args[2].match_goal, ebc.chunk_free_problem_spaces)
  /\ Len(op.printed) = 1

\* a match was refused with the trace setting on because learning is off, while
\* the except rule failed too, and nothing was printed
C30_WitnessSilent ==
  /\ op.name = "set_learning_for_instantiation"
  /\ ~op.ret
  /\ op.args[1]
  /\ ~ebc.ebc_settings["SETTING_EBC_LEARNING_ON"]
  /\ FailingReasons(ebc, op.args[2]) # <<>>
  /\ op.printed = <<>>

\* ---- C31 ----
\* the tally and the naming counter of chunks, and those of justifications
ChunkCounters(e) == <<e.chunks_this_d_cycle, e.chunk_naming_counter>>

JustificationCounters(e) ==
  <<e.justifications_this_d_cycle, e.justification_naming_counter>>

\* what a call of set_up_rule_name for a rule of one kind does with the prefix,
\* the tally and the naming counter of that kind (own) and of the other kind
KindStep(prefix, own, own_after, other, other_after) ==
  /\ StartsWith(agent'.symbols[op'.ret].name, prefix)
  /\ other_after = other
  /\ own_after[1] = own[1] + 1
  /\ IF ~ebc.ebc_settings["SETTING_EBC_LEARNING_ON"]
          \/ ebc.naming_style = "numberedFormat"
     THEN own_after[2] > own[2]
     ELSE /\ own_after[2] = own[2]
          /\ EndsWith(op'.composed, "-" \o to_string(own_after[1]))

\* C31: the kind of rule selects the prefix and the counters exclusively: naming
\* a chunk uses the prefix "chunk", chunks_this_d_cycle and
\* chunk_naming_counter, and leaves justifications_this_d_cycle and
\* justification_naming_counter unchanged; naming a justification uses the
\* prefix "justify" and the counters of justifications, and leaves both
\* counters of chunks unchanged.
C31_KindSelectsPrefixAndCounters ==
  [][op'.name = "set_up_rule_name"
       => IF op'.args[1] = "ebc_chunk"
          THEN KindStep("chunk", ChunkCounters(ebc), ChunkCounters(ebc'),
                        JustificationCounters(ebc), JustificationCounters(ebc'))
          ELSE KindStep("justify", JustificationCounters(ebc),
                        JustificationCounters(ebc'),
                        ChunkCounters(ebc), ChunkCounters(ebc'))
    ]_vars

\* a justification was named in numbered style after a chunk had been named in
\* the same decision cycle
C31_Witness ==
  /\ op.name = "set_up_rule_name"
  /\ op.args[1] = "ebc_justification"
  /\ ebc.naming_style = "numberedFormat"
  /\ ebc.chunks_this_d_cycle = 1
  /\ ebc.chunk_naming_counter > 0
  /\ ebc.justifications_this_d_cycle = 1
  /\ ebc.justification_naming_counter > 0
  /\ StartsWith(agent.symbols[op.ret].name, "justify")

\* a chunk was named in the descriptive style after a justification had been
\* named in the same decision cycle
C31_WitnessChunk ==
  /\ op.name = "set_up_rule_name"
  /\ op.args[1] = "ebc_chunk"
  /\ ebc.naming_style = "ruleFormat"
  /\ ebc.ebc_settings["SETTING_EBC_LEARNING_ON"]
  /\ ebc.chunks_this_d_cycle = 1
  /\ ebc.justifications_this_d_cycle = 1

\* ---- C32 ----
\* the live symbolic constants with the name that was given
SymConstantsNamed(name) ==
  {sym \in Live(agent) :
     /\ agent.symbols[sym].symbol_type = SYM_CONSTANT_SYMBOL_TYPE
     /\ agent.symbols[sym].name = name}

\* C32: in both naming styles the symbol generate_name_for_new_rule returns has
\* a name that was not interned as a symbolic constant immediately before the
\* call, and refcount 1 after it; the creation without a lookup is reached only
\* when the probe found the name absent, so naming a rule never makes a second
\* symbolic constant with an existing name.
C32_FreshNameWithOneReference ==
  Named => /\ GivenName \notin op.before.interned
           /\ agent.symbols[op.ret].reference_count = 1
           /\ SymConstantsNamed(GivenName) = {op.ret}

\* a rule was named in the descriptive style while the composed name was
\* interned: the probe found it, and the rule got a numbered variant of it
C32_Witness ==
  /\ Named
  /\ Descriptive /\ LearningOn
  /\ op.composed \in op.before.interned
  /\ GivenName # op.composed
  /\ agent.symbols[op.ret].reference_count = 1

\* a rule was named in the descriptive style while the composed name was absent
C32_WitnessAbsent ==
  /\ Named
  /\ Descriptive /\ LearningOn
  /\ op.before.interned # {}
  /\ GivenName = op.composed
  /\ agent.symbols[op.ret].reference_count = 1

\* a rule was named in numbered style while other names were interned
C32_WitnessNumbered ==
  /\ Named
  /\ ~Descriptive
  /\ op.before.interned # {}
  /\ agent.symbols[op.ret].reference_count = 1

\* ---- C33 ----
\* the live symbols of a kind
LiveOfType(type) ==
  {sym \in Live(agent) : agent.symbols[sym].symbol_type = type}

\* two keys of the model are equal in the 32 bits that are hashed
SameLowWord(a, b) == ToUint32(a) = ToUint32(b)

\* what make_int_constant and find_int_constant return carries the value asked
\* for, and no two live integer constants carry the same value
IntegersKeptApart ==
  /\ op.name \in {"make_int_constant", "find_int_constant"} /\ op.ret # NIL
       => agent.symbols[op.ret].value = op.args[1]
  /\ op.name = "make_int_constant" => op.ret # NIL
  /\ \A s1, s2 \in LiveOfType(INT_CONSTANT_SYMBOL_TYPE) :
       agent.symbols[s1].value = agent.symbols[s2].value => s1 = s2

\* what find_identifier returns carries the letter and the number asked for
IdentifierFoundByNumber ==
  (op.name = "find_identifier" /\ op.ret # NIL)
    => /\ agent.symbols[op.ret].name_number = op.args[2]
       /\ agent.symbols[op.ret].name_letter = op.args[1]

\* C33: hashing only the low 32 bits of a key never merges identities:
\* make_int_constant(a) and make_int_constant(b) return the same symbol if and
\* only if a = b, also when a and b agree in their low 32 bits, and
\* find_identifier(letter, n) never returns an identifier whose 64-bit number
\* differs from n.
C33_TruncationKeepsIdentities == IntegersKeptApart /\ IdentifierFoundByNumber

\* 2^32 + 7 was interned while 7 was live in the same bucket, and got a symbol
\* of its own
C33_Witness ==
  /\ op.name = "make_int_constant"
  /\ op.args[1] = <<1, 7>>
  /\ \E other \in LiveOfType(INT_CONSTANT_SYMBOL_TYPE) :
       /\ other # op.ret
       /\ agent.symbols[other].value = <<0, 7>>
       /\ hash_int_constant(agent, other,
                            agent.tables[INT_CONSTANT_SYMBOL_TYPE].log2size)
            = hash_int_constant(agent, op.ret,
                                agent.tables[INT_CONSTANT_SYMBOL_TYPE].log2size)

\* S(2^32 + 1) was looked up and found while S1 was live in the same bucket
C33_WitnessIdentifier ==
  /\ op.name = "find_identifier"
  /\ op.args = <<83, Above32 + 1>>
  /\ op.ret # NIL
  /\ \E other \in LiveOfType(IDENTIFIER_SYMBOL_TYPE) :
       /\ other # op.ret
       /\ agent.symbols[other].name_number = 1
       /\ SameLowWord(agent.symbols[other].name_number, op.args[2])
       /\ hash_identifier(agent, other,
                          agent.tables[IDENTIFIER_SYMBOL_TYPE].log2size)
            = hash_identifier(agent, op.ret,
                              agent.tables[IDENTIFIER_SYMBOL_TYPE].log2size)

\* ---- C34 ----
\* a call of compress has returned
Compressed == op.name = "compress" /\ op.pc = "done"

\* h with bit i flipped
Flip(h, i) == [h EXCEPT ![i] = 1 - @]

\* the passes through the loop give what compress gives
PassesGiveCompress == Compressed => op.result = compress(op.args[1], op.args[2])

\* C34: compress drops no input bit: for every 32-bit h, every bit position i
\* of h and every width num_bits in 1..31, flipping bit i of h changes the
\* value of compress(h, num_bits).
C34_CompressKeepsEveryBit ==
  Compressed => \A i \in BitIndex :
                  compress(Flip(op.args[1], i), op.args[2])
                    # compress(op.args[1], op.args[2])

\* 0x00010001 was compressed to 4 bits: the first fold cancels its two bits
C34_Witness ==
  /\ Compressed
  /\ op.args = <<Bits({0, 16}), 4>>
  /\ compress(op.args[1], 4) = Zero32
  /\ compress(Flip(op.args[1], 16), 4) = Bits({0})

\* ---- C35 ----
\* the step was a make_xxx call
MadeStep ==
  op'.name \in {"make_variable", "make_sym_constant", "make_int_constant",
                "make_new_identifier"}

\* the call created a symbol: what it returned was not live before
CreatedStep == MadeStep /\ op'.ret \notin Live(agent)

\* a creation advances current_symbol_hash_id by 137 and stores the new value in
\* the symbol; interning a live key advances nothing
HashIdAdvances ==
  /\ CreatedStep
       => /\ agent'.current_symbol_hash_id - agent.current_symbol_hash_id = HashIdStep
          /\ agent'.symbols[op'.ret].hash_id = agent'.current_symbol_hash_id
  /\ (MadeStep /\ ~CreatedStep)
       => agent'.current_symbol_hash_id = agent.current_symbol_hash_id

\* the hash id of a new symbol is above that of every symbol made before it
HashIdAboveEarlier ==
  CreatedStep
    => /\ Lt32(agent.current_symbol_hash_id, agent'.symbols[op'.ret].hash_id)
       /\ \A sym \in Live(agent) :
            Lt32(agent.symbols[sym].hash_id, agent'.symbols[op'.ret].hash_id)

\* no two live symbols share a hash id
HashIdsDiffer ==
  \A s1, s2 \in Live(agent') :
    agent'.symbols[s1].hash_id = agent'.symbols[s2].hash_id => s1 = s2

\* C35: every creation of a symbol of any kind advances current_symbol_hash_id
\* by exactly 137 and stores the new value as the symbol's hash_id, interning a
\* live key advances nothing, and the hash ids of successively created symbols
\* are strictly increasing in 32-bit unsigned arithmetic, so that no two live
\* symbols share a hash_id.
C35_HashIdsIncrease ==
  [][HashIdAdvances /\ HashIdAboveEarlier /\ HashIdsDiffer]_vars

\* the part of C35 that holds: the step of 137, and no change on a live key
C35_HashIdAdvancesBy137 == [][HashIdAdvances]_vars

\* a symbol was created past the wrap: its hash id is 103 while a symbol with
\* hash id 4,294,967,262 is live
C35_WitnessWrapped ==
  /\ op.name \in {"make_variable", "make_sym_constant", "make_int_constant",
                  "make_new_identifier"}
  /\ agent.symbols[op.ret].hash_id = 103
  /\ \E sym \in Live(agent) : agent.symbols[sym].hash_id = -34

\* ---- C36 ----
\* the live identifiers other than sym that carry sym's letter and number
Namesakes(sym) ==
  {other \in LiveOfType(IDENTIFIER_SYMBOL_TYPE) \ {sym} :
     /\ agent.symbols[other].name_letter = agent.symbols[sym].name_letter
     /\ agent.symbols[other].name_number = agent.symbols[sym].name_number}

\* C36: an identifier created with the number omitted never has the letter and
\* number of another identifier live at that moment, after any sequence of
\* creations (numbers omitted or supplied), releases and reset_id_counters
\* calls, successful resets with long-term identifiers live included.
C36_OmittedNumberIsFree ==
  (op.name = "make_new_identifier" /\ op.args[3] = NIL)
    => Namesakes(op.ret) = {}

\* an identifier was created with the number omitted while a long-term
\* identifier of its letter was live, and no reset had come between
C36_WitnessKept ==
  /\ op.name = "make_new_identifier" /\ op.args[3] = NIL
  /\ Namesakes(op.ret) = {}
  /\ \E other \in LiveOfType(IDENTIFIER_SYMBOL_TYPE) \ {op.ret} :
       /\ agent.symbols[other].smem_lti # NIL
       /\ agent.symbols[other].name_letter = agent.symbols[op.ret].name_letter

(***************************************************************************)
(* C37: between operations every symbol in one of the five tables is live  *)
(* and carries at least one reference: a new symbol enters its table with  *)
(* the count already raised from 0 to 1, and a symbol whose count returns  *)
(* to 0 has left its table.                                                *)
(***************************************************************************)
TabledSymbols == UNION {Items(agent, type) : type \in SymbolTypes}

C37_TabledSymbolsAreReferenced ==
  /\ \A sym \in TabledSymbols :
       /\ sym \in Live(agent)
       /\ agent.symbols[sym].reference_count >= 1
  /\ \A sym \in Live(agent) :
       agent.symbols[sym].reference_count = 0 => sym \notin TabledSymbols

\* a last reference was dropped: the symbol is gone while others stay tabled
C37_Witness ==
  /\ op.name = "symbol_remove_ref"
  /\ op.args[1] \notin Live(agent)
  /\ op.args[1] \notin TabledSymbols
  /\ \E sym \in TabledSymbols : agent.symbols[sym].reference_count = 1

\* a new variable is in its table with the one reference of its creation
C37_WitnessMade ==
  /\ op.name = "make_variable"
  /\ op.ret \in Items(agent, VARIABLE_SYMBOL_TYPE)
  /\ agent.symbols[op.ret].reference_count = 1

(***************************************************************************)
(* C38: create_predefined_symbols and release_predefined_symbols are       *)
(* balanced.  Every assignment of the former has exactly one               *)
(* release_helper call on the same field in the latter; create leaves each *)
(* symbol with one reference per field that points at it (two for the      *)
(* names interned twice), release gives exactly these back, and create     *)
(* followed by release leaves of the variable and symbolic-constant tables *)
(* only what other callers still hold: nothing, when no caller holds a     *)
(* symbol.                                                                 *)
(***************************************************************************)
\* the agent fields that point at sym
FieldsAt(ag, sym) == {f \in PredefinedFields : ag.predefined[f] = sym}

\* the positions of a field in the two lists
MadeAt(f) == {i \in DOMAIN PredefinedSymbols : PredefinedSymbols[i].field = f}

ReleasedAt(f) == {i \in DOMAIN ReleasedFields : ReleasedFields[i] = f}

OneReleasePerMake ==
  /\ \A f \in PredefinedFields : Cardinality(MadeAt(f)) = 1
  /\ \A i \in DOMAIN ReleasedFields : ReleasedFields[i] \in PredefinedFields
  /\ \A f \in PredefinedFields : Cardinality(ReleasedAt(f)) = 1

\* the entries of create_predefined_symbols that make the symbol sym
EntriesOf(ag, sym) ==
  {i \in DOMAIN PredefinedSymbols :
     /\ PredefinedSymbols[i].name = ag.symbols[sym].name
     /\ (PredefinedSymbols[i].make = "make_variable")
          = (ag.symbols[sym].symbol_type = VARIABLE_SYMBOL_TYPE)}

\* after create every symbol has one reference per make call that named it,
\* each kept in a field of its own
CreateCounts ==
  op.name = "create_predefined_symbols" =>
    /\ TabledSymbols = Live(agent)
    /\ Cardinality(Live(agent)) = PredefinedCount
    /\ \A sym \in Live(agent) :
         /\ agent.symbols[sym].reference_count = Cardinality(EntriesOf(agent, sym))
         /\ Cardinality(FieldsAt(agent, sym)) = Cardinality(EntriesOf(agent, sym))

\* release takes from every symbol the references of the fields that point at
\* it, and the symbol is gone when these were all it had
ReleaseGivesBack ==
  op'.name = "release_predefined_symbols" =>
    \A sym \in Live(agent) :
      LET n == Cardinality(FieldsAt(agent, sym))
      IN IF agent.symbols[sym].reference_count = n
         THEN sym \notin Live(agent')
         ELSE /\ sym \in Live(agent')
              /\ agent'.symbols[sym].reference_count
                   = agent.symbols[sym].reference_count - n

\* after release the two tables hold what callers hold, with their counts
ReleasedLeavesCallers ==
  op.name = "release_predefined_symbols" =>
    /\ Items(agent, VARIABLE_SYMBOL_TYPE) \cup Items(agent, SYM_CONSTANT_SYMBOL_TYPE)
         = DOMAIN held
    /\ \A sym \in DOMAIN held : agent.symbols[sym].reference_count = held[sym]

C38_CreateAndReleaseBalance ==
  /\ [] (OneReleasePerMake /\ CreateCounts /\ ReleasedLeavesCallers)
  /\ [][ReleaseGivesBack]_vars

\* create then release with no caller holding a symbol: both tables are empty
C38_Witness ==
  /\ op.name = "release_predefined_symbols"
  /\ DOMAIN held = {}
  /\ Items(agent, VARIABLE_SYMBOL_TYPE) = {}
  /\ Items(agent, SYM_CONSTANT_SYMBOL_TYPE) = {}
  /\ Live(agent) = {}

\* the names interned twice have two references after create
C38_WitnessTwice ==
  /\ op.name = "create_predefined_symbols"
  /\ agent.predefined["epmem_sym_cmd"] = agent.predefined["smem_sym_cmd"]
  /\ agent.symbols[agent.predefined["smem_sym_cmd"]].reference_count = 2

\* release while a caller holds a predefined symbol: that symbol stays
C38_WitnessCallerKeeps ==
  /\ op.name = "release_predefined_symbols"
  /\ \E sym \in DOMAIN held : agent.symbols[sym].name = "state"

(***************************************************************************)
(* C39: generate_new_sym_constant terminates for every prefix, every       *)
(* starting counter value and every finite set of interned symbolic        *)
(* constants (every pass but the last meets a name that is interned, so    *)
(* the loop makes at most one pass more than there are interned names); on *)
(* return the symbol's name is the prefix followed by the first counter    *)
(* value at or after the starting value whose name was not interned, and   *)
(* the counter is exactly one greater than the number used.                *)
(***************************************************************************)
Generating == op.name = "generate_new_sym_constant"

Generated == Generating /\ op.pc = "done"

\* the uint64_t values at or after start that the loop of the model can reach
AtOrAfter(start) ==
  IF start < 0 THEN start .. -1 ELSE start .. (start + MaxPasses)

\* used is the first value at or after start whose name was not interned
FirstNotInterned(prefix, start, used, interned) ==
  /\ used \in AtOrAfter(start)
  /\ prefix \o to_string(used) \notin interned
  /\ \A c \in AtOrAfter(start) : c < used => prefix \o to_string(c) \in interned

\* each pass that did not return met an interned name of its own
PassesBounded == Generating => op.passes <= Cardinality(op.interned) + 1

\* the name returned is the prefix followed by the first free number
ReturnedName ==
  Generated =>
    \E used \in AtOrAfter(op.args[2]) :
      /\ agent.symbols[op.ret].name = op.args[1] \o to_string(used)
      /\ FirstNotInterned(op.args[1], op.args[2], used, op.interned)

\* the counter is one greater than the number in the name
CounterOneGreater ==
  Generated =>
    \A used \in AtOrAfter(op.args[2]) :
      agent.symbols[op.ret].name = op.args[1] \o to_string(used)
        => used # -1 /\ op.counter = used + 1

C39_GeneratorReturnsFirstFree == PassesBounded /\ ReturnedName /\ CounterOneGreater

\* the statement for a prefix and numbers that fit the buffer, below the top of
\* uint64_t
GeneratedWithinBuffer ==
  (Generating /\ op.args = <<"chunk", 1>>) => C39_GeneratorReturnsFirstFree

\* the call skipped two interned names and returned the third
C39_WitnessSkipped ==
  /\ Generated
  /\ op.args = <<"chunk", 1>>
  /\ op.passes = 3
  /\ agent.symbols[op.ret].name = "chunk3"
  /\ op.counter = 4

\* the name returned is the prefix alone: the number did not fit the buffer
C39_WitnessTruncated ==
  /\ Generated
  /\ agent.symbols[op.ret].name = op.args[1]

\* the prefix that fills the buffer is interned: pass after pass finds it
C39_WitnessLooping ==
  /\ Generating /\ op.pc = "loop"
  /\ op.passes = MaxPasses
  /\ op.passes > Cardinality(op.interned) + 1

\* a pass that finds the whole buffer taken by an interned prefix leaves the
\* loop where it was
LongPrefixLoopsOn ==
  (/\ Generating /\ op.pc = "loop"
   /\ op.args[1] = LongPrefix
   /\ LongPrefix \in InternedNames(agent))
    => (op'.pc = "loop" /\ LongPrefix \in InternedNames(agent'))

LongPrefixNeverReturns == [][LongPrefixLoopsOn]_vars

\* the counter has passed the top of uint64_t
C39_WitnessWrapped ==
  /\ Generated
  /\ op.args[2] = -1
  /\ op.counter = 0

(***************************************************************************)
(* C40: for every 32-bit h and every num_bits in 1..31, compress(h,        *)
(* num_bits) terminates and returns a value strictly below 2^num_bits (no  *)
(* bit at or above num_bits is set), so the bucket index that every find_  *)
(* and hash_ function computes lies inside a table of 2^log2size buckets.  *)
(***************************************************************************)
Compressing == op.name = "compress" /\ op.pc = "loop"

\* no bit at or above num_bits is set in w
BelowTwoTo(w, num_bits) == \A i \in BitIndex : i >= num_bits => w[i] = 0

\* the result is below 2^num_bits all along, and is what the tables use
CompressedBelowSize ==
  op.name = "compress" =>
    /\ BelowTwoTo(op.result, op.args[2])
    /\ op.passes <= WordBits
    /\ Compressed => /\ op.result = compress(op.args[1], op.args[2])
                     /\ op.h = Zero32

\* every index the hash functions of the model give is one of the table's
\* 2^log2size buckets
InsideTable(hashes) ==
  \A key \in DOMAIN hashes :
    hashes[key] \in 0 .. (2 ^ key[Len(key)] - 1)

BucketIndexInside ==
  /\ InsideTable(string_hashes)
  /\ InsideTable(predefined_hashes)
  /\ InsideTable(generated_hashes)
  /\ InsideTable(identifier_hashes)
  /\ InsideTable(letter_hashes)
  /\ InsideTable(wide_identifier_hashes)
  /\ InsideTable(int_constant_hashes)
  /\ InsideTable(float_constant_hashes)

C40_CompressEndsBelowSize ==
  /\ [] (CompressedBelowSize /\ BucketIndexInside)
  /\ Compressing ~> Compressed

\* 0xFFFFFFFF compressed to 31 bits: two passes, and bit 0 cancels
C40_Witness ==
  /\ Compressed
  /\ op.args = <<Bits(BitIndex), WordBits - 1>>
  /\ op.passes = 2
  /\ op.result = Bits(1 .. (WordBits - 2))

\* a result with every one of its num_bits bits set
C40_WitnessFull ==
  /\ Compressed
  /\ op.args[2] = 16
  /\ op.result = Bits(0 .. 15)

====
